---- MODULE Spec2Model ----
(***************************************************************************)
(* Model of the phishing heuristics of taskpane.js: the CONFIG tables, the *)
(* string helpers, parseAuthResults, extractDomain, getRegistrableDomain,  *)
(* the link pipeline (findUrls, extractHrefTargetsFromHtml,                *)
(* decodeRedirectTarget), analyze, setUI, parseHeaders and the             *)
(* Office.onReady start-up handler.                                        *)
(*                                                                         *)
(* A JavaScript string is a sequence of one-character strings, so that the *)
(* regular expressions and the split/includes/endsWith calls of the source *)
(* are computed character by character.  What the platform parses (the URL *)
(* class, DOMParser) is represented by its parsed value: a link is the     *)
(* record the URL parser yields, an HTML body the sequence of its a[href]  *)
(* anchors.                                                                *)
(***************************************************************************)
EXTENDS Integers, Sequences, FiniteSets, TLC

VARIABLES
  params,     \* the argument object of analyze
  pc,         \* "ready" -> "analyzed" -> "rendered"
  result,     \* the object analyze returned
  added,      \* the amount added to score with each pushed reason
  ui,         \* the children setUI appended to #summary and #reasons
  authHeaders,\* the argument of a direct parseAuthResults call
  authPc,     \* "ready" -> "parsed"
  authResults,\* the object parseAuthResults returned
  headerBlock,\* the raw header block given to a direct parseHeaders call
  headersPc,  \* "ready" -> "parsed"
  parsedHeaders, \* the mapping parseHeaders returned
  item,       \* Office.context.mailbox.item: <<>> or <<the mail item>>
  domReady,   \* the page has the #summary and #reasons elements
  statusEl,   \* the page has the #status element
  hpc,        \* where the Office.onReady handler stands
  loader,     \* the loader is shown in #status
  pending,    \* the accessors called whose callback has not run yet
  issued,     \* the accessors called so far, in order
  failed,     \* the accessors whose callback reported a failed status
  localBodyText, \* the handler's local bodyText
  localBodyHtml, \* the handler's local bodyHtml
  localHeaders,  \* the handler's local headers
  analyzeCalls \* how often the handler has called analyze

headerVars == <<headerBlock, headersPc, parsedHeaders>>

startVars == <<item, domReady, statusEl, hpc, loader, pending, issued, failed,
               localBodyText, localBodyHtml, localHeaders, analyzeCalls>>

vars == <<params, pc, result, added, ui, authHeaders, authPc, authResults,
          headerVars, startVars>>

(***************************************************************************)
(* Bounds of the inputs.                                                   *)
(***************************************************************************)
MaxTextLinks == 1
MaxAnchors == 1
MaxWrappedLinks == 2
MaxAuthTokens == 2
MaxHeaderLines == 2
MaxContinuations == 1

(***************************************************************************)
(* CONFIG (taskpane.js 8-50).                                              *)
(***************************************************************************)
CONFIG ==
  [ WEIGHTS |->
      [ DMARC_FAIL |-> 35, SPF_FAIL |-> 15, DKIM_FAIL |-> 15,
        DISPLAY_NAME_SPOOF |-> 10, MALFORMED_DOMAIN |-> 10,
        KEYWORD_MULTIPLE |-> 12, SHORTENED_LINK |-> 10, DATA_URI |-> 12,
        HTML_FORM |-> 10, DOMAIN_MISMATCH |-> 10, EMBEDDED_MSG |-> 8 ],
    RISK_THRESHOLDS |-> [ HIGH |-> 80, MEDIUM |-> 40 ],
    SHORTENER_DOMAINS |->
      { <<"b","i","t",".","l","y">>, <<"t","i","n","y","u","r","l",".","c","o","m">>, <<"t",".","c","o">>, <<"o","w",".","l","y">>, <<"b","u","f","f",".","l","y">>,
        <<"r","b",".","g","y">>, <<"i","s",".","g","d">>, <<"t",".","l","y">>, <<"c","u","t","t",".","l","y">>, <<"r","e","b","r","a","n","d",".","l","y">> },
    REDIRECTOR_HOSTS |->
      { <<"n","a","m","0","1",".","s","a","f","e","l","i","n","k","s",".","p","r","o","t","e","c","t","i","o","n",".","o","u","t","l","o","o","k",".","c","o","m">>,
        <<"s","a","f","e","l","i","n","k","s",".","p","r","o","t","e","c","t","i","o","n",".","o","u","t","l","o","o","k",".","c","o","m">>,
        <<"u","r","l","d","e","f","e","n","s","e",".","p","r","o","o","f","p","o","i","n","t",".","c","o","m">>,
        <<"u","r","l","d","e","f","e","n","s","e",".","s","h","a","r","e","p","o","i","n","t",".","c","o","m">>,
        <<"w","w","w",".","g","o","o","g","l","e",".","c","o","m">> },
    SUSPICIOUS_KEYWORDS |->
      << <<"u","r","g","e","n","t">>, <<"v","e","r","i","f","y">>, <<"p","a","s","s","w","o","r","d">>, <<"i","n","v","o","i","c","e">>, <<"g","i","f","t"," ","c","a","r","d">>,
         <<"w","i","r","e">>, <<"o","v","e","r","d","u","e">>, <<"2","f","a">>, <<"r","e","s","e","t">>, <<"c","o","n","f","i","r","m">>, <<"p","a","y"," ","n","o","w">> >> ]

(***************************************************************************)
(* Character classes and the String methods the source calls.              *)
(***************************************************************************)
LowerLetters ==
  {"a","b","c","d","e","f","g","h","i","j","k","l","m",
   "n","o","p","q","r","s","t","u","v","w","x","y","z"}

UpperToLower ==
  [ A |-> "a", B |-> "b", C |-> "c", D |-> "d", E |-> "e", F |-> "f",
    G |-> "g", H |-> "h", I |-> "i", J |-> "j", K |-> "k", L |-> "l",
    M |-> "m", N |-> "n", O |-> "o", P |-> "p", Q |-> "q", R |-> "r",
    S |-> "s", T |-> "t", U |-> "u", V |-> "v", W |-> "w", X |-> "x",
    Y |-> "y", Z |-> "z" ]

Digits == {"0","1","2","3","4","5","6","7","8","9"}

\* \w of a regular expression
WordChars == LowerLetters \cup DOMAIN UpperToLower \cup Digits \cup {"_"}

\* \s of a regular expression (the members an input here can hold)
Whitespace == {" ", "\t", "\n", "\r", "\f"}

\* what . of a regular expression does not match
LineTerminators == {"\n", "\r"}

MinOf(S) == CHOOSE x \in S : \A y \in S : x <= y

MaxOf(S) == CHOOSE x \in S : \A y \in S : y <= x

toLowerCase(s) ==
  [i \in 1..Len(s) |-> IF s[i] \in DOMAIN UpperToLower THEN UpperToLower[s[i]] ELSE s[i]]

trim(s) ==
  LET keep == {i \in 1..Len(s) : s[i] \notin Whitespace}
  IN  IF keep = {} THEN <<>> ELSE SubSeq(s, MinOf(keep), MaxOf(keep))

\* sub occurs in s at index i
OccursAt(s, i, sub) ==
  /\ i >= 1
  /\ i + Len(sub) - 1 <= Len(s)
  /\ \A k \in 1..Len(sub) : s[i + k - 1] = sub[k]

includes(s, sub) == \E i \in 1..(Len(s) + 1) : OccursAt(s, i, sub)

startsWith(s, pre) == OccursAt(s, 1, pre)

endsWith(s, suf) == Len(suf) <= Len(s) /\ OccursAt(s, Len(s) - Len(suf) + 1, suf)

RECURSIVE split(_, _)
split(s, sep) ==
  LET at == {i \in 1..Len(s) : s[i] = sep}
  IN  IF at = {} THEN <<s>>
      ELSE <<SubSeq(s, 1, MinOf(at) - 1)>> \o split(SubSeq(s, MinOf(at) + 1, Len(s)), sep)

RECURSIVE join(_, _)
join(parts, sep) ==
  IF parts = <<>> THEN <<>>
  ELSE IF Len(parts) = 1 THEN parts[1]
  ELSE parts[1] \o sep \o join(Tail(parts), sep)

\* a \b of a regular expression lies between s[i-1] and s[i]
WordBoundary(s, i) ==
  LET before == i > 1 /\ i - 1 <= Len(s) /\ s[i - 1] \in WordChars
      after  == i >= 1 /\ i <= Len(s) /\ s[i] \in WordChars
  IN  before # after

\* the end of the longest run of characters of class cls that starts at i
\* (i - 1 when s[i] is not of the class)
RunEnd(s, i, cls) ==
  LET stop == {k \in i..Len(s) : s[k] \notin cls}
  IN  IF stop = {} THEN Len(s) ELSE MinOf(stop) - 1

(***************************************************************************)
(* uniq (taskpane.js 96-98): Array.from(new Set(arr)) keeps the first      *)
(* occurrence of each element, in order.                                   *)
(***************************************************************************)
uniq(arr) ==
  LET first == {i \in 1..Len(arr) : \A j \in 1..(i - 1) : arr[j] # arr[i]}
      RECURSIVE pick(_)
      pick(i) == IF i > Len(arr) THEN <<>>
                 ELSE IF i \in first THEN <<arr[i]>> \o pick(i + 1)
                 ELSE pick(i + 1)
  IN  pick(1)

(***************************************************************************)
(* extractDomain (taskpane.js 77-88).                                      *)
(*   /<(.+@[^>]+)>|([^<\s]+@[^\s>]+)/ is matched at the leftmost index     *)
(*   where one alternative matches, the first alternative first; the       *)
(*   quantifiers are greedy, so each alternative takes the last "@" that   *)
(*   still lets the rest match.                                            *)
(***************************************************************************)
\* index of the first ">" after index a, 0 when there is none
FirstCloseAfter(s, a) ==
  LET at == {b \in (a + 1)..Len(s) : s[b] = ">"}
  IN  IF at = {} THEN 0 ELSE MinOf(at)

\* the "@" positions with which <(.+@[^>]+)> matches from index i
AngleAts(s, i) ==
  IF ~(i <= Len(s) /\ s[i] = "<") THEN {}
  ELSE {a \in (i + 2)..Len(s) :
          /\ s[a] = "@"
          /\ \A k \in (i + 1)..(a - 1) : s[k] \notin LineTerminators
          /\ FirstCloseAfter(s, a) >= a + 2}

\* the "@" positions with which ([^<\s]+@[^\s>]+) matches from index i
BareAts(s, i) ==
  {a \in (i + 1)..Len(s) :
     /\ s[a] = "@"
     /\ \A k \in i..(a - 1) : s[k] \notin (Whitespace \cup {"<"})
     /\ a + 1 <= Len(s)
     /\ s[a + 1] \notin (Whitespace \cup {">"})}

\* emailPart[1] || emailPart[2], <<>> when the expression does not match
EmailPart(s) ==
  LET starts == {i \in 1..Len(s) : AngleAts(s, i) # {} \/ BareAts(s, i) # {}}
  IN  IF starts = {} THEN <<>>
      ELSE LET i == MinOf(starts)
           IN  IF AngleAts(s, i) # {}
               THEN LET a == MaxOf(AngleAts(s, i))
                    IN  SubSeq(s, i + 1, FirstCloseAfter(s, a) - 1)
               ELSE LET a == MaxOf(BareAts(s, i))
                        stop == {k \in (a + 1)..Len(s) : s[k] \in (Whitespace \cup {">"})}
                        e == IF stop = {} THEN Len(s) ELSE MinOf(stop) - 1
                    IN  SubSeq(s, i, e)

extractDomain(addr) ==
  IF addr = <<>> THEN <<>>
  ELSE LET email == EmailPart(toLowerCase(addr))
       IN  IF email = <<>> THEN <<>>
           ELSE LET parts == split(email, "@")
                IN  IF Len(parts) >= 2 THEN parts[2] ELSE <<>>

(***************************************************************************)
(* parseAuthResults (taskpane.js 235-259).  A header mapping is a function *)
(* from header names to values; headers[name] || '' is HeaderValue.        *)
(***************************************************************************)
HeaderValue(headers, name) ==
  IF name \in DOMAIN headers THEN headers[name] ELSE <<>>

\* s.match(/\b<key>([a-z]+)/)[1], <<>> when there is no match
KeyTokenMatch(s, key) ==
  LET at == {i \in 1..Len(s) :
               /\ OccursAt(s, i, key)
               /\ WordBoundary(s, i)
               /\ i + Len(key) <= Len(s)
               /\ s[i + Len(key)] \in LowerLetters}
  IN  IF at = {} THEN <<>>
      ELSE LET from == MinOf(at) + Len(key)
           IN  SubSeq(s, from, RunEnd(s, from, LowerLetters))

SpfWords == << <<"p","a","s","s">>, <<"f","a","i","l">>, <<"s","o","f","t","f","a","i","l">>, <<"n","e","u","t","r","a","l">>, <<"n","o","n","e">> >>

\* s.match(/\b(pass|fail|softfail|neutral|none)\b/)[1], <<>> when no match
SpfWordMatch(s) ==
  LET hit(i, w) == /\ OccursAt(s, i, w)
                   /\ WordBoundary(s, i)
                   /\ WordBoundary(s, i + Len(w))
      at == {i \in 1..Len(s) : \E n \in 1..Len(SpfWords) : hit(i, SpfWords[n])}
  IN  IF at = {} THEN <<>>
      ELSE LET i == MinOf(at)
               n == MinOf({m \in 1..Len(SpfWords) : hit(i, SpfWords[m])})
           IN  SpfWords[n]

\* faulty variant of parseAuthResults: a value other than the five result words is
\* reported as none
parseAuthResultsKnownOnly(headers) ==
  LET authRes     == toLowerCase(HeaderValue(headers, "authentication-results"))
      receivedSpf == toLowerCase(HeaderValue(headers, "received-spf"))
      Known(v)    == \E n \in 1..Len(SpfWords) : v = SpfWords[n]
      dmarcMatch  == KeyTokenMatch(authRes, <<"d","m","a","r","c","=">>)
      spfMatch    == IF SpfWordMatch(receivedSpf) # <<>>
                     THEN SpfWordMatch(receivedSpf)
                     ELSE KeyTokenMatch(authRes, <<"s","p","f","=">>)
      dkimMatch   == KeyTokenMatch(authRes, <<"d","k","i","m","=">>)
  IN  [ dmarc |-> IF Known(dmarcMatch) THEN dmarcMatch ELSE <<"n","o","n","e">>,
        spf   |-> IF Known(spfMatch) THEN spfMatch ELSE <<"n","o","n","e">>,
        dkim  |-> IF Known(dkimMatch) THEN dkimMatch ELSE <<"n","o","n","e">> ]

parseAuthResults(headers) ==
  LET authRes     == toLowerCase(HeaderValue(headers, "authentication-results"))
      receivedSpf == toLowerCase(HeaderValue(headers, "received-spf"))
      dmarcMatch  == KeyTokenMatch(authRes, <<"d","m","a","r","c","=">>)
      spfMatch    == IF SpfWordMatch(receivedSpf) # <<>>
                     THEN SpfWordMatch(receivedSpf)
                     ELSE KeyTokenMatch(authRes, <<"s","p","f","=">>)
      dkimMatch   == KeyTokenMatch(authRes, <<"d","k","i","m","=">>)
  IN  [ dmarc |-> IF dmarcMatch # <<>> THEN dmarcMatch ELSE <<"n","o","n","e">>,
        spf   |-> IF spfMatch # <<>> THEN spfMatch ELSE <<"n","o","n","e">>,
        dkim  |-> IF dkimMatch # <<>> THEN dkimMatch ELSE <<"n","o","n","e">> ]

(***************************************************************************)
(* getRegistrableDomain (taskpane.js 267-275).                             *)
(***************************************************************************)
getRegistrableDomain(hostname) ==
  IF hostname = <<>> THEN <<>>
  ELSE LET parts == split(hostname, ".")
       IN  IF Len(parts) <= 2 THEN hostname
           ELSE join(SubSeq(parts, Len(parts) - 1, Len(parts)), <<".">>)

(***************************************************************************)
(* Links.  A URL string is the record the URL parser makes of it:          *)
(*   scheme  "http", "https", "data", or "invalid" when new URL throws;    *)
(*   host    u.hostname (lower case, as the parser delivers it);           *)
(*   params  for the parameter names url, u, target, q, r in that order,   *)
(*           the values of those that are present and not empty, each the  *)
(*           record of what decodeURIComponent of the value parses to.     *)
(***************************************************************************)
UrlParses(u) == u.scheme # "invalid"

\* the first candidate parameter whose decoded value parses, <<>> if none
FirstTarget(u) ==
  LET ok == {i \in 1..Len(u.params) : UrlParses(u.params[i])}
  IN  IF ok = {} THEN <<>> ELSE <<u.params[MinOf(ok)]>>

\* decodeRedirectTarget (taskpane.js 283-306)
decodeRedirectTarget(urlStr) ==
  IF ~UrlParses(urlStr) THEN urlStr
  ELSE IF toLowerCase(urlStr.host) \notin CONFIG.REDIRECTOR_HOSTS THEN urlStr
  ELSE IF FirstTarget(urlStr) # <<>> THEN FirstTarget(urlStr)[1]
  ELSE urlStr

\* findUrls (taskpane.js 105-122): bodyText.urls are the matches of urlRe
\* in order, each already the record of its text without the trailing
\* punctuation; a match that does not parse is kept as it is.
findUrls(text) == uniq(text.urls)

\* the local set of extractHrefTargetsFromHtml (taskpane.js 139-145)
knownRedirectHosts ==
  { <<"n","a","m","0","1",".","s","a","f","e","l","i","n","k","s",".","p","r","o","t","e","c","t","i","o","n",".","o","u","t","l","o","o","k",".","c","o","m">>,
    <<"s","a","f","e","l","i","n","k","s",".","p","r","o","t","e","c","t","i","o","n",".","o","u","t","l","o","o","k",".","c","o","m">>,
    <<"u","r","l","d","e","f","e","n","s","e",".","p","r","o","o","f","p","o","i","n","t",".","c","o","m">>,
    <<"u","r","l","d","e","f","e","n","s","e",".","s","h","a","r","e","p","o","i","n","t",".","c","o","m">>,
    <<"w","w","w",".","g","o","o","g","l","e",".","c","o","m">> }

\* what one anchor pushes to results (taskpane.js 149-180): html is the
\* sequence of the a[href] elements, href <<>> for an empty attribute,
\* else <<u>> with u the record of new URL(raw, 'https://localhost')
AnchorTargets(a) ==
  IF a.href = <<>> THEN <<>>
  ELSE LET resolved == a.href[1]
       IN  IF ~UrlParses(resolved) THEN <<>>
           ELSE IF resolved.host \in knownRedirectHosts /\ FirstTarget(resolved) # <<>>
                THEN FirstTarget(resolved)
           ELSE <<resolved>>

\* extractHrefTargetsFromHtml (taskpane.js 131-186)
RECURSIVE AnchorResults(_)
AnchorResults(anchors) ==
  IF anchors = <<>> THEN <<>>
  ELSE AnchorTargets(Head(anchors)) \o AnchorResults(Tail(anchors))

extractHrefTargetsFromHtml(html) == uniq(AnchorResults(html))

(***************************************************************************)
(* parseHeaders (taskpane.js 193-228).  The mapping it returns is a        *)
(* function from header names to values, both strings.                     *)
(***************************************************************************)
\* raw.split(/\r?\n(?!\s)/): the block is cut at every line feed that is
\* not followed by whitespace, a carriage return before it cut with it
RECURSIVE splitHeaderLines(_)
splitHeaderLines(raw) ==
  LET cuts == {i \in 1..Len(raw) :
                 /\ raw[i] = "\n"
                 /\ (i = Len(raw) \/ raw[i + 1] \notin Whitespace)}
  IN  IF cuts = {} THEN <<raw>>
      ELSE LET i     == MinOf(cuts)
               first == IF i > 1 /\ raw[i - 1] = "\r" THEN i - 1 ELSE i
           IN  <<SubSeq(raw, 1, first - 1)>>
               \o splitHeaderLines(SubSeq(raw, i + 1, Len(raw)))

\* line.match(/^([^:]+):\s*(.*)$/): <<>> when it does not match, else
\* <<[name, value]>>; the . matches no line terminator and $ only the end
\* of the line
headerLineMatch(line) ==
  LET colons == {i \in 1..Len(line) : line[i] = ":"}
  IN  IF colons = {} \/ MinOf(colons) = 1 THEN <<>>
      ELSE LET c == MinOf(colons)
               e == RunEnd(line, c + 1, Whitespace)
           IN  IF \E k \in (e + 1)..Len(line) : line[k] \in LineTerminators
               THEN <<>>
               ELSE << [name  |-> SubSeq(line, 1, c - 1),
                        value |-> SubSeq(line, e + 1, Len(line))] >>

\* headers[name] = value
setHeader(headers, name, value) ==
  [n \in DOMAIN headers \cup {name} |-> IF n = name THEN value ELSE headers[n]]

\* if (currentHeader) headers[currentHeader] = currentValue.trim()
saveHeader(st) ==
  IF st.currentHeader # <<>>
  THEN setHeader(st.headers, st.currentHeader, trim(st.currentValue))
  ELSE st.headers

\* the body of headerLines.forEach (taskpane.js 203-219)
headerLineStep(st, line) ==
  IF line # <<>> /\ line[1] \in Whitespace
  THEN [st EXCEPT !.currentValue = st.currentValue \o <<" ">> \o trim(line)]
  ELSE LET match == headerLineMatch(line)
       IN  IF match # <<>>
           THEN [ headers       |-> saveHeader(st),
                  currentHeader |-> toLowerCase(match[1].name),
                  currentValue  |-> match[1].value ]
           ELSE [st EXCEPT !.headers = saveHeader(st)]

RECURSIVE headerLinesFold(_, _)
headerLinesFold(st, lines) ==
  IF lines = <<>> THEN st
  ELSE headerLinesFold(headerLineStep(st, Head(lines)), Tail(lines))

parseHeaders(raw) ==
  IF raw = <<>> THEN <<>>
  ELSE saveHeader(headerLinesFold(
         [headers |-> <<>>, currentHeader |-> <<>>, currentValue |-> <<>>],
         splitHeaderLines(raw)))

(***************************************************************************)
(* analyze (taskpane.js 319-475).                                          *)
(*   params.from         <<>> for no object, else <<f>>; f.displayName and *)
(*                       f.emailAddress are <<>> for undefined, else <<s>> *)
(*   params.subject      a string                                          *)
(*   params.bodyText     [prose, urls]: the text around the links, and the *)
(*                       matches of urlRe in it; the text of a link holds  *)
(*                       no keyword of CONFIG.SUSPICIOUS_KEYWORDS          *)
(*   params.headers      a header mapping                                  *)
(*   params.html         the a[href] anchors of the HTML body              *)
(*   params.attachments  [attachmentType, type] records, "" for undefined  *)
(***************************************************************************)
\* the reason texts analyze pushes (taskpane.js 327-461), the interpolated
\* parts left as written
REASON ==
  [ MISSING_SENDER |->
      "Unable to analyze: Missing sender information",
    DMARC_FAIL |->
      "DMARC authentication failed!",
    SPF_FAIL |->
      "SPF check failed!",
    DKIM_FAIL |->
      "DKIM signature verification failed!",
    DISPLAY_NAME_SPOOF |->
      "Display name contains different email address (potential spoofing)",
    MALFORMED_DOMAIN |->
      "Sender domain appears malformed",
    KEYWORD_MULTIPLE |->
      "Multiple suspicious keywords found: ${foundKeywords.join(', ')}",
    LINKS_FOUND |->
      "Found ${urls.length} URL(s) in message",
    SHORTENED_LINK |->
      "Found ${shortened.length} shortened URL(s)",
    DATA_URI |->
      "Found embedded data: URI(s)",
    HTML_FORM |->
      "HTML form detected in message body",
    EMBEDDED_MSG |->
      "Message contains embedded message attachment (likely forwarded)",
    MISMATCH_FORWARDED |->
      "Message appears forwarded; links point to different domains: ${mismatchDomains.join(', ')}",
    DOMAIN_MISMATCH |->
      "Links point to different domains: ${mismatchDomains.join(', ')}" ]

\* x || ''
OrEmpty(x) == IF x = <<>> THEN <<>> ELSE x[1]

\* faulty variant of senderMissing: only the object is tested
senderMissingObjectOnly(from) == from = <<>>

\* faulty variant of senderMissing: an address no domain can be extracted
\* from counts as missing
senderMissingOrUnparsable(from) ==
  \/ from = <<>>
  \/ OrEmpty(from[1].emailAddress) = <<>>
  \/ extractDomain(toLowerCase(trim(OrEmpty(from[1].emailAddress)))) = <<>>

\* !from || !from.emailAddress  (taskpane.js 324)
senderMissing(from) ==
  \/ from = <<>>
  \/ OrEmpty(from[1].emailAddress) = <<>>

\* what analyze returns without a sender (taskpane.js 325-331)
MissingSenderResult ==
  [ probability |-> 0,
    reasons     |-> << REASON.MISSING_SENDER >>,
    riskClass   |-> "risk-low",
    linkDomains |-> <<>>,
    fromDomain  |-> <<>> ]

\* score += weight; reasons.push(reason): what one fired signal does
Signal(weight, reason) == << [weight |-> weight, reason |-> reason] >>

\* faulty variant of AuthSignals: the DMARC result is not looked at
AuthSignalsWithoutDmarc(a) ==
  (IF a.spf = <<"f","a","i","l">>
   THEN Signal(CONFIG.WEIGHTS.SPF_FAIL, REASON.SPF_FAIL)
   ELSE <<>>)
  \o
  (IF a.dkim = <<"f","a","i","l">>
   THEN Signal(CONFIG.WEIGHTS.DKIM_FAIL, REASON.DKIM_FAIL)
   ELSE <<>>)

\* 1) authentication results (taskpane.js 337-348)
AuthSignals(a) ==
  (IF a.dmarc = <<"f","a","i","l">>
   THEN Signal(CONFIG.WEIGHTS.DMARC_FAIL, REASON.DMARC_FAIL)
   ELSE <<>>)
  \o
  (IF a.spf = <<"f","a","i","l">>
   THEN Signal(CONFIG.WEIGHTS.SPF_FAIL, REASON.SPF_FAIL)
   ELSE <<>>)
  \o
  (IF a.dkim = <<"f","a","i","l">>
   THEN Signal(CONFIG.WEIGHTS.DKIM_FAIL, REASON.DKIM_FAIL)
   ELSE <<>>)

\* 2) display name and sender domain (taskpane.js 355-363)
SenderSignals(display, address, fromDomain) ==
  (IF /\ display # <<>>
      /\ includes(toLowerCase(display), <<"@">>)
      /\ ~includes(display, address)
   THEN Signal(CONFIG.WEIGHTS.DISPLAY_NAME_SPOOF,
               REASON.DISPLAY_NAME_SPOOF)
   ELSE <<>>)
  \o
  (IF fromDomain = <<>> \/ ~includes(fromDomain, <<".">>)
   THEN Signal(CONFIG.WEIGHTS.MALFORMED_DOMAIN, REASON.MALFORMED_DOMAIN)
   ELSE <<>>)

\* CONFIG.SUSPICIOUS_KEYWORDS.filter(k => text.includes(k))  (taskpane.js 369)
foundKeywords(text) ==
  LET Found(k) == includes(text, k)
  IN  SelectSeq(CONFIG.SUSPICIOUS_KEYWORDS, Found)

\* faulty variant of KeywordSignal: one keyword is enough
KeywordSignalAtLeastOne(text) ==
  IF Len(foundKeywords(text)) >= 1
  THEN Signal(CONFIG.WEIGHTS.KEYWORD_MULTIPLE,
              REASON.KEYWORD_MULTIPLE)
  ELSE <<>>

\* 3) keywords (taskpane.js 370-373)
KeywordSignal(text) ==
  IF Len(foundKeywords(text)) >= 2
  THEN Signal(CONFIG.WEIGHTS.KEYWORD_MULTIPLE,
              REASON.KEYWORD_MULTIPLE)
  ELSE <<>>

\* urls.filter(...) of taskpane.js 385-392
shortenedUrls(urls) ==
  LET Short(u) == UrlParses(u) /\ toLowerCase(u.host) \in CONFIG.SHORTENER_DOMAINS
  IN  SelectSeq(urls, Short)

\* urls.filter(u => u.toLowerCase().startsWith('data:'))  (taskpane.js 400)
dataUriUrls(urls) ==
  LET Data(u) == u.scheme = "data"
  IN  SelectSeq(urls, Data)

\* /<\s*form\b/i.test(bodyText)  (taskpane.js 407)
formTag(s) ==
  \E i \in 1..Len(s) :
     /\ s[i] = "<"
     /\ LET j == RunEnd(s, i + 1, Whitespace) + 1
        IN  /\ OccursAt(toLowerCase(s), j, <<"f","o","r","m">>)
            /\ WordBoundary(s, j + 4)

\* faulty variant of UrlSignals: every link on a redirector host adds to score
UrlSignalsRedirectorBonus(urls, bodyText) ==
  LET Redirector(u) == UrlParses(u) /\ toLowerCase(u.host) \in CONFIG.REDIRECTOR_HOSTS
  IN  (IF Len(urls) > 0
       THEN Signal(0, REASON.LINKS_FOUND)
       ELSE <<>>)
      \o
      (IF Len(shortenedUrls(urls)) > 0
       THEN Signal(CONFIG.WEIGHTS.SHORTENED_LINK, REASON.SHORTENED_LINK)
       ELSE <<>>)
      \o
      (IF Len(dataUriUrls(urls)) > 0
       THEN Signal(CONFIG.WEIGHTS.DATA_URI, REASON.DATA_URI)
       ELSE <<>>)
      \o
      (IF formTag(bodyText.prose)
       THEN Signal(CONFIG.WEIGHTS.HTML_FORM, REASON.HTML_FORM)
       ELSE <<>>)
      \o
      (IF Len(SelectSeq(urls, Redirector)) > 0
       THEN Signal(CONFIG.WEIGHTS.SHORTENED_LINK * Len(SelectSeq(urls, Redirector)),
                   "Found ${redirectors.length} redirector link(s)")
       ELSE <<>>)

\* faulty variant of UrlSignals: the form test runs before the link tests
UrlSignalsFormFirst(urls, bodyText) ==
  (IF formTag(bodyText.prose)
   THEN Signal(CONFIG.WEIGHTS.HTML_FORM, REASON.HTML_FORM)
   ELSE <<>>)
  \o
  (IF Len(urls) > 0
   THEN Signal(0, REASON.LINKS_FOUND)
   ELSE <<>>)
  \o
  (IF Len(shortenedUrls(urls)) > 0
   THEN Signal(CONFIG.WEIGHTS.SHORTENED_LINK, REASON.SHORTENED_LINK)
   ELSE <<>>)
  \o
  (IF Len(dataUriUrls(urls)) > 0
   THEN Signal(CONFIG.WEIGHTS.DATA_URI, REASON.DATA_URI)
   ELSE <<>>)

\* link presence, shorteners, data: URIs, forms (taskpane.js 380-411); the
\* link-presence reason adds nothing to score
UrlSignals(urls, bodyText) ==
  (IF Len(urls) > 0
   THEN Signal(0, REASON.LINKS_FOUND)
   ELSE <<>>)
  \o
  (IF Len(shortenedUrls(urls)) > 0
   THEN Signal(CONFIG.WEIGHTS.SHORTENED_LINK, REASON.SHORTENED_LINK)
   ELSE <<>>)
  \o
  (IF Len(dataUriUrls(urls)) > 0
   THEN Signal(CONFIG.WEIGHTS.DATA_URI, REASON.DATA_URI)
   ELSE <<>>)
  \o
  (IF formTag(bodyText.prose)
   THEN Signal(CONFIG.WEIGHTS.HTML_FORM, REASON.HTML_FORM)
   ELSE <<>>)

\* faulty variant of linkDomainsOf: the domains are not deduplicated
linkDomainsOfNoUniq(urls) ==
  LET decodedTargets == [i \in 1..Len(urls) |-> decodeRedirectTarget(urls[i])]
      domains == [i \in 1..Len(urls) |->
                    IF UrlParses(decodedTargets[i])
                    THEN getRegistrableDomain(toLowerCase(decodedTargets[i].host))
                    ELSE <<>>]
      Truthy(d) == d # <<>>
  IN  SelectSeq(domains, Truthy)

\* decodedTargets and linkDomains (taskpane.js 415-430)
linkDomainsOf(urls) ==
  LET decodedTargets == [i \in 1..Len(urls) |-> decodeRedirectTarget(urls[i])]
      domains == [i \in 1..Len(urls) |->
                    IF UrlParses(decodedTargets[i])
                    THEN getRegistrableDomain(toLowerCase(decodedTargets[i].host))
                    ELSE <<>>]
      Truthy(d) == d # <<>>
  IN  uniq(SelectSeq(domains, Truthy))

\* Boolean(headers['resent-from'] || headers['resent-sender'])  (taskpane.js 433)
isForwardOf(headers) ==
  \/ HeaderValue(headers, "resent-from") # <<>>
  \/ HeaderValue(headers, "resent-sender") # <<>>

\* att.attachmentType || att.type || ''  (taskpane.js 437)
attTypeOf(att) == IF att.attachmentType # "" THEN att.attachmentType ELSE att.type

\* the loop of taskpane.js 434-443
hasEmbeddedMsgOf(attachments) ==
  \E i \in 1..Len(attachments) : attTypeOf(attachments[i]) = "item"

\* taskpane.js 444-447
EmbeddedSignal(hasEmbeddedMsg) ==
  IF hasEmbeddedMsg
  THEN Signal(CONFIG.WEIGHTS.EMBEDDED_MSG,
              REASON.EMBEDDED_MSG)
  ELSE <<>>

\* faulty variant of mismatchDomainsOf: the link domains are compared with
\* the sender's full domain
mismatchDomainsOfFullDomain(fromDomain, linkDomains) ==
  LET Mismatch(d) == /\ d # fromDomain
                     /\ ~endsWith(d, <<".">> \o fromDomain)
  IN  SelectSeq(linkDomains, Mismatch)

\* linkDomains.filter(...) of taskpane.js 450-453
mismatchDomainsOf(fromDomain, linkDomains) ==
  LET fromRegistrableDomain == getRegistrableDomain(fromDomain)
      Mismatch(d) == /\ d # fromRegistrableDomain
                     /\ ~endsWith(d, <<".">> \o fromRegistrableDomain)
  IN  SelectSeq(linkDomains, Mismatch)

\* faulty variant of MismatchSignal: a forwarded message gets half the penalty
MismatchSignalScaled(fromDomain, linkDomains, isForward, hasEmbeddedMsg) ==
  IF fromDomain # <<>> /\ Len(linkDomains) > 0
  THEN IF Len(mismatchDomainsOf(fromDomain, linkDomains)) > 0
       THEN IF isForward \/ hasEmbeddedMsg
            THEN Signal(CONFIG.WEIGHTS.DOMAIN_MISMATCH \div 2,
                   REASON.MISMATCH_FORWARDED)
            ELSE Signal(CONFIG.WEIGHTS.DOMAIN_MISMATCH,
                   REASON.DOMAIN_MISMATCH)
       ELSE <<>>
  ELSE <<>>

\* 4) sender against link domains (taskpane.js 449-464); for a forwarded
\* message the reason is pushed and nothing is added to score
MismatchSignal(fromDomain, linkDomains, isForward, hasEmbeddedMsg) ==
  IF fromDomain # <<>> /\ Len(linkDomains) > 0
  THEN IF Len(mismatchDomainsOf(fromDomain, linkDomains)) > 0
       THEN IF isForward \/ hasEmbeddedMsg
            THEN Signal(0,
                   REASON.MISMATCH_FORWARDED)
            ELSE Signal(CONFIG.WEIGHTS.DOMAIN_MISMATCH,
                   REASON.DOMAIN_MISMATCH)
       ELSE <<>>
  ELSE <<>>

\* faulty variant of clampScore: the score is not clamped
clampScoreOmitted(score) == score

\* Math.min(score, 100)  (taskpane.js 467)
clampScore(score) == IF score < 100 THEN score ELSE 100

\* Math.round of a number that is already an integer  (taskpane.js 468)
MathRound(score) == score

\* taskpane.js 470-472
riskClassOf(probability) ==
  IF probability >= CONFIG.RISK_THRESHOLDS.HIGH THEN "risk-high"
  ELSE IF probability >= CONFIG.RISK_THRESHOLDS.MEDIUM THEN "risk-med"
  ELSE "risk-low"

\* the URL list of taskpane.js 376-379
urlsOf(p) == uniq(findUrls(p.bodyText) \o extractHrefTargetsFromHtml(p.html))

RECURSIVE SumWeights(_)
SumWeights(fired) ==
  IF fired = <<>> THEN 0 ELSE Head(fired).weight + SumWeights(Tail(fired))

\* taskpane.js 466-474: clamp, round, classify and return
Finish(fired, linkDomains, fromDomain) ==
  [ ret   |-> [ probability |-> MathRound(clampScore(SumWeights(fired))),
                reasons     |-> [i \in 1..Len(fired) |-> fired[i].reason],
                riskClass   |-> riskClassOf(MathRound(clampScore(SumWeights(fired)))),
                linkDomains |-> linkDomains,
                fromDomain  |-> fromDomain ],
    added |-> [i \in 1..Len(fired) |-> fired[i].weight] ]

\* one call of analyze: ret is what it returns, added the amounts it added
\* to score, one for each reason pushed, in the order of the statements of
\* taskpane.js 334-464
analyzeRun(p) ==
  IF senderMissing(p.from)
  THEN [ ret |-> MissingSenderResult, added |-> <<0>> ]
  ELSE
    LET from           == p.from[1]
        auth           == parseAuthResults(p.headers)
        display        == trim(OrEmpty(from.displayName))
        address        == toLowerCase(trim(OrEmpty(from.emailAddress)))
        fromDomain     == extractDomain(address)
        text           == toLowerCase(p.subject \o <<"\n">> \o p.bodyText.prose)
        urls           == urlsOf(p)
        linkDomains    == linkDomainsOf(urls)
        isForward      == isForwardOf(p.headers)
        hasEmbeddedMsg == hasEmbeddedMsgOf(p.attachments)
        fired          == AuthSignals(auth)
                          \o SenderSignals(display, address, fromDomain)
                          \o KeywordSignal(text)
                          \o UrlSignals(urls, p.bodyText)
                          \o EmbeddedSignal(hasEmbeddedMsg)
                          \o MismatchSignal(fromDomain, linkDomains, isForward, hasEmbeddedMsg)
    IN  Finish(fired, linkDomains, fromDomain)

analyze(p) == analyzeRun(p).ret

(***************************************************************************)
(* setUI (taskpane.js 481-512): the children appended to #summary and to   *)
(* #reasons, each as the text it carries.                                  *)
(***************************************************************************)
setUI(r) ==
  [ score       |-> [value |-> r.probability, suffix |-> "% risk",
                     classNames |-> <<"score", r.riskClass>>],
    fromDomain  |-> IF r.fromDomain # <<>> THEN r.fromDomain ELSE <<"n","/","a">>,
    linkDomains |-> IF join(r.linkDomains, <<","," ">>) # <<>>
                    THEN join(r.linkDomains, <<","," ">>) ELSE <<"n","o","n","e">>,
    reasons     |-> IF Len(r.reasons) > 0
                    THEN [i \in 1..Len(r.reasons) |->
                            [tag |-> "div", text |-> r.reasons[i]]]
                    ELSE << [tag |-> "em", text |-> "No obvious red flags."] >> ]

(***************************************************************************)
(* Raw header blocks.  A block is written as its lines: each entry a name  *)
(* and the parts of its value, the second and later parts on folded        *)
(* continuation lines; an entry without a name is a line without a colon.  *)
(* eol is the line break and indent the whitespace that starts a           *)
(* continuation line.                                                      *)
(***************************************************************************)
CRLF == <<"\r", "\n">>
LF   == <<"\n">>

HeaderEntry(name, parts) == [name |-> name, parts |-> parts]

HeaderBlock(entries, eol, indent) ==
  [entries |-> entries, eol |-> eol, indent |-> indent]

NoBlock == HeaderBlock(<<>>, CRLF, <<" ">>)

NoBodyText == [prose |-> <<>>, urls |-> <<>>]

\* the text of one entry with its line break
EntryText(e, eol, indent) ==
  (IF e.name = <<>> THEN <<>> ELSE e.name \o <<":", " ">>)
  \o join(e.parts, eol \o indent) \o eol

RECURSIVE EntriesText(_, _, _)
EntriesText(entries, eol, indent) ==
  IF entries = <<>> THEN <<>>
  ELSE EntryText(Head(entries), eol, indent)
       \o EntriesText(Tail(entries), eol, indent)

\* the raw string of a block
RawOf(b) == EntriesText(b.entries, b.eol, b.indent)

BlockNames == { <<"T","o">>, <<"X","-","I","d">> }

BlockValues == { <<"a">>, <<"b"," ","c">> }

BlockStyles == { [eol |-> CRLF, indent |-> <<" ">>], [eol |-> LF, indent |-> <<"\t">>] }

BlockEntries ==
  { HeaderEntry(n, ps) :
      n \in BlockNames,
      ps \in UNION {[1..k -> BlockValues] : k \in 1..(MaxContinuations + 1)} }

JunkEntry == HeaderEntry(<<>>, << <<"n","o"," ","c","o","l","o","n"," ","h","e","r","e">> >>)

HeaderBlocks ==
  { HeaderBlock(es, s.eol, s.indent) :
      es \in UNION {[1..k -> BlockEntries] : k \in 0..MaxHeaderLines},
      s \in BlockStyles }
  \cup { HeaderBlock(<<JunkEntry>>, s.eol, s.indent) : s \in BlockStyles }
  \cup { HeaderBlock(<<JunkEntry, JunkEntry>>, s.eol, s.indent) : s \in BlockStyles }

(***************************************************************************)
(* Inputs.                                                                 *)
(***************************************************************************)
Url(scheme, host, ps) == [scheme |-> scheme, host |-> host, params |-> ps]

UrlInvalid  == Url("invalid", <<>>, <<>>)
UrlBank     == Url("https", <<"w","w","w",".","b","a","n","k",".","c","o","m">>, <<>>)
UrlEvil     == Url("http", <<"e","v","i","l",".","c","o","m">>, <<>>)
UrlEvilWww  == Url("http", <<"w","w","w",".","e","v","i","l",".","c","o","m">>, <<>>)
UrlShort    == Url("http", <<"b","i","t",".","l","y">>, <<>>)
UrlData     == Url("data", <<>>, <<>>)
\* a link on a host that is no redirector, carrying a url parameter
UrlEvilWithParam == Url("http", <<"e","v","i","l",".","c","o","m">>, <<UrlBank>>)
\* redirector links: target decodable, not decodable, second candidate
\* decodable, and a wrapper around another redirector link
UrlGoogleEvil    == Url("https", <<"w","w","w",".","g","o","o","g","l","e",".","c","o","m">>, <<UrlEvil>>)
UrlGoogleBad     == Url("https", <<"w","w","w",".","g","o","o","g","l","e",".","c","o","m">>, <<UrlInvalid>>)
UrlGoogleBadEvil == Url("https", <<"w","w","w",".","g","o","o","g","l","e",".","c","o","m">>, <<UrlInvalid, UrlEvil>>)
UrlSafeGoogleEvil ==
  Url("https", <<"n","a","m","0","1",".","s","a","f","e","l","i","n","k","s",".","p","r","o","t","e","c","t","i","o","n",".","o","u","t","l","o","o","k",".","c","o","m">>, <<UrlGoogleEvil>>)

SeqsUpTo(S, n) == UNION {[1..k -> S] : k \in 0..n}

\* the link inputs of Spec
CoreTextUrls == {UrlBank, UrlShort, UrlGoogleEvil}
CoreHrefs    == {<<UrlData>>, <<UrlEvil>>}

\* the link inputs of SpecLinks
TextUrls == {UrlEvil, UrlInvalid, UrlGoogleEvil, UrlGoogleBad,
             UrlSafeGoogleEvil, UrlEvilWithParam}
Hrefs    == {<<>>, <<UrlInvalid>>, <<UrlData>>, <<UrlEvilWww>>,
             <<UrlGoogleBadEvil>>, <<UrlSafeGoogleEvil>>}

Anchor(h) == [href |-> h]

DisplayNames == { <<>>, << <<"x","@","e","v","i","l",".","c","o","m">> >> }

EmailAddresses ==
  { <<>>, << <<>> >>, << <<" ","A","@","M","a","i","l",".","B","a","n","k",".","C","O","M"," ">> >>, << <<"b","a","n","k">> >>, << <<"i","t","@","i","n","t","r","a","n","e","t">> >> }

FromObjects ==
  { <<>> } \cup
  { << [displayName |-> d, emailAddress |-> e] >> : d \in DisplayNames, e \in EmailAddresses }

Subjects == { <<>>, <<"U","r","g","e","n","t">> }

Proses == { <<>>, <<"V","e","r","i","f","y"," ","h","e","r","e"," ","<"," ","F","O","R","M",">">> }

AttFile       == [attachmentType |-> "file", type |-> ""]
AttItem       == [attachmentType |-> "item", type |-> ""]
AttItemByType == [attachmentType |-> "", type |-> "item"]

AttachmentLists == { <<>>, <<AttFile>>, <<AttFile, AttItemByType>> }

AuthAllFail  == <<"m","x",";"," ","s","p","f","=","f","a","i","l",";"," ","d","k","i","m","=","f","a","i","l",";"," ","d","m","a","r","c","=","f","a","i","l">>
AuthDmarcFail == <<"d","k","i","m","=","p","a","s","s",";"," ","D","M","A","R","C","=","F","a","i","l"," ","(","p","=","R","E","J","E","C","T",")">>
AuthDmarcFailed == <<"d","k","i","m","=","f","a","i","l",";"," ","d","m","a","r","c","=","f","a","i","l","e","d">>
SpfPass      == <<"P","a","s","s"," ","(","1",".","2",".","3",".","4"," ","o","k",")">>
Resender     == <<"f","w","d","@","c","o","r","p",".","c","o","m">>

Headers(auth_, spf_, rfrom_, rsender_) ==
  LET present == {n \in {"authentication-results", "received-spf", "resent-from", "resent-sender"} :
                    CASE n = "authentication-results" -> auth_ # <<>>
                      [] n = "received-spf" -> spf_ # <<>>
                      [] n = "resent-from" -> rfrom_ # <<>>
                      [] OTHER -> rsender_ # <<>>}
  IN  [n \in present |->
         CASE n = "authentication-results" -> auth_
           [] n = "received-spf" -> spf_
           [] n = "resent-from" -> rfrom_
           [] OTHER -> rsender_]

HeaderMaps ==
  { Headers(<<>>, <<>>, <<>>, <<>>),
    Headers(AuthAllFail, <<>>, <<>>, <<>>),
    Headers(AuthDmarcFailed, SpfPass, <<>>, Resender),
    Headers(AuthDmarcFail, SpfPass, <<>>, <<>>),
    Headers(<<>>, <<>>, Resender, <<>>) }

Message(f, s, prose, us, hs, hm, at) ==
  [ from |-> f, subject |-> s, bodyText |-> [prose |-> prose, urls |-> us],
    headers |-> hm, html |-> [i \in 1..Len(hs) |-> Anchor(hs[i])], attachments |-> at ]

Messages ==
  { Message(f, s, prose, us, hs, hm, at) :
      f \in FromObjects, s \in Subjects, prose \in Proses,
      us \in SeqsUpTo(CoreTextUrls, MaxTextLinks), hs \in SeqsUpTo(CoreHrefs, MaxAnchors),
      hm \in HeaderMaps, at \in AttachmentLists }

LinkSenders ==
  { << [displayName |-> <<>>, emailAddress |-> << <<"a","@","b","a","n","k",".","c","o","m">> >>] >>,
    << [displayName |-> <<>>, emailAddress |-> << <<"a","@","e","v","i","l",".","c","o","m">> >>] >> }

LinkMessages ==
  { Message(f, <<>>, <<>>, us, hs, hm, <<>>) :
      f \in LinkSenders,
      us \in SeqsUpTo(TextUrls, MaxWrappedLinks), hs \in SeqsUpTo(Hrefs, MaxAnchors),
      hm \in { Headers(<<>>, <<>>, <<>>, <<>>), Headers(<<>>, <<>>, Resender, <<>>) } }

AuthTokens ==
  { <<"d","m","a","r","c","=","f","a","i","l">>, <<"D","M","A","R","C","=","P","a","s","s">>, <<"d","m","a","r","c","=","t","e","m","p","e","r","r","o","r">>, <<"d","m","a","r","c","=">>,
    <<"s","p","f","=","s","o","f","t","f","a","i","l">>, <<"s","p","f","=","f","a","i","l">>, <<"d","k","i","m","=","p","e","r","m","e","r","r","o","r">>, <<"d","k","i","m","=","n","o","n","e">>, <<"x","d","k","i","m","=","f","a","i","l">> }

ReceivedSpfValues == { <<>>, SpfPass, <<"T","e","m","p","E","r","r","o","r"," ","(","t","i","m","e","o","u","t",")">> }

AuthHeaderMaps ==
  { Headers(join(ts, <<";"," ">>), spf_, <<>>, <<>>) :
      ts \in SeqsUpTo(AuthTokens, MaxAuthTokens), spf_ \in ReceivedSpfValues }

(***************************************************************************)
(* The state machine: one analyze call and the setUI call on its result    *)
(* (taskpane.js 639-640), or one parseAuthResults call.                    *)
(***************************************************************************)
NoResult ==
  [ probability |-> 0, reasons |-> <<>>, riskClass |-> "", linkDomains |-> <<>>,
    fromDomain |-> <<>> ]

NoUI ==
  [ score |-> [value |-> 0, suffix |-> "", classNames |-> <<>>],
    fromDomain |-> <<>>, linkDomains |-> <<>>, reasons |-> <<>> ]

NoAuth == [dmarc |-> <<>>, spf |-> <<>>, dkim |-> <<>>]

NoMessage == Message(<<>>, <<>>, <<>>, <<>>, <<>>, Headers(<<>>, <<>>, <<>>, <<>>), <<>>)

\* no direct parseHeaders call
HeadersIdle ==
  /\ headerBlock = NoBlock
  /\ headersPc = "idle"
  /\ parsedHeaders = <<>>

\* no start-up handler
StartIdle ==
  /\ item = <<>>
  /\ domReady = TRUE
  /\ statusEl = TRUE
  /\ hpc = "idle"
  /\ loader = FALSE
  /\ pending = {}
  /\ issued = <<>>
  /\ failed = {}
  /\ localBodyText = NoBodyText
  /\ localBodyHtml = <<>>
  /\ localHeaders = <<>>
  /\ analyzeCalls = 0

InitWith(ms) ==
  /\ HeadersIdle
  /\ StartIdle
  /\ params \in ms
  /\ pc = "ready"
  /\ result = NoResult
  /\ added = <<>>
  /\ ui = NoUI
  /\ authHeaders = Headers(<<>>, <<>>, <<>>, <<>>)
  /\ authPc = "idle"
  /\ authResults = NoAuth

Init == InitWith(Messages)

InitLinks == InitWith(LinkMessages)

InitAuth ==
  /\ HeadersIdle
  /\ StartIdle
  /\ params = NoMessage
  /\ pc = "idle"
  /\ result = NoResult
  /\ added = <<>>
  /\ ui = NoUI
  /\ authHeaders \in AuthHeaderMaps
  /\ authPc = "ready"
  /\ authResults = NoAuth

Analyze ==
  /\ pc = "ready"
  /\ \E run \in {analyzeRun(params)} :
        /\ result' = run.ret
        /\ added' = run.added
  /\ pc' = "analyzed"
  /\ UNCHANGED <<params, ui, authHeaders, authPc, authResults, headerVars, startVars>>

SetUI ==
  /\ pc = "analyzed"
  /\ ui' = setUI(result)
  /\ pc' = "rendered"
  /\ UNCHANGED <<params, result, added, authHeaders, authPc, authResults, headerVars, startVars>>

ParseAuthResults ==
  /\ authPc = "ready"
  /\ authResults' = parseAuthResults(authHeaders)
  /\ authPc' = "parsed"
  /\ UNCHANGED <<params, pc, result, added, ui, authHeaders, headerVars, startVars>>

Next == Analyze \/ SetUI

NextAuth == ParseAuthResults

Spec == Init /\ [][Next]_vars

SpecLinks == InitLinks /\ [][Next]_vars

SpecAuth == InitAuth /\ [][NextAuth]_vars


(***************************************************************************)
(* One parseHeaders call (taskpane.js 193-228).                            *)
(***************************************************************************)
InitHeaders ==
  /\ StartIdle
  /\ params = NoMessage
  /\ pc = "idle"
  /\ result = NoResult
  /\ added = <<>>
  /\ ui = NoUI
  /\ authHeaders = Headers(<<>>, <<>>, <<>>, <<>>)
  /\ authPc = "idle"
  /\ authResults = NoAuth
  /\ headerBlock \in HeaderBlocks
  /\ headersPc = "ready"
  /\ parsedHeaders = <<>>

ParseHeaders ==
  /\ headersPc = "ready"
  /\ parsedHeaders' = parseHeaders(RawOf(headerBlock))
  /\ headersPc' = "parsed"
  /\ UNCHANGED <<params, pc, result, added, ui, authHeaders, authPc, authResults,
                 headerBlock, startVars>>

NextHeaders == ParseHeaders

SpecHeaders == InitHeaders /\ [][NextHeaders]_vars

(***************************************************************************)
(* The Office.onReady handler (taskpane.js 562-654).  The mail item is a   *)
(* record of what its accessors deliver:                                   *)
(*   from, subject, attachments   the properties the handler reads         *)
(*   text, html, headerBlock      what body.getAsync('text'),              *)
(*                                body.getAsync('html') and                *)
(*                                getAllInternetHeadersAsync deliver when  *)
(*                                they succeed                             *)
(*   hasHeadersApi                item.getAllInternetHeadersAsync exists   *)
(*   wellTyped                    the values have the types analyze        *)
(*                                expects; when not, analyze throws a      *)
(*                                TypeError                                *)
(* hpc runs "start", "item", "awaitText", "html", "awaitHtml", "headers",  *)
(* "awaitHeaders", "analyze", "render", "hide", "catch", and ends in       *)
(* "done" or, when the catch block throws, in "rejected".                  *)
(***************************************************************************)
MailItem(from, subject, text, html, block, api, typed, attachments) ==
  [ from |-> from, subject |-> subject, text |-> text, html |-> html,
    headerBlock |-> block, hasHeadersApi |-> api, wellTyped |-> typed,
    attachments |-> attachments ]

AuthBlock ==
  HeaderBlock(<< HeaderEntry(<<"A","u","t","h","e","n","t","i","c","a","t","i","o","n","-","R","e","s","u","l","t","s">>, << <<"m","x",";"," ","d","m","a","r","c","=","f","a","i","l">> >>),
                 HeaderEntry(<<"R","e","s","e","n","t","-","F","r","o","m">>, << <<"f","w","d","@","c","o","r","p",".","c","o","m">> >>) >>,
              CRLF, <<" ">>)

FoldedAuthBlock ==
  HeaderBlock(<< HeaderEntry(<<"R","e","s","e","n","t","-","F","r","o","m">>, << <<"f","w","d","@","c","o","r","p",".","c","o","m">> >>),
                 HeaderEntry(<<"A","u","t","h","e","n","t","i","c","a","t","i","o","n","-","R","e","s","u","l","t","s">>, << <<"m","x",";">>, <<"d","m","a","r","c","=","f","a","i","l">> >>) >>,
              CRLF, <<" ">>)

StartSenders ==
  { <<>>, << [displayName |-> <<>>, emailAddress |-> << <<"a","@","b","a","n","k",".","c","o","m">> >>] >> }

StartText == [prose |-> <<"V","e","r","i","f","y"," ","h","e","r","e">>, urls |-> <<UrlEvil>>]

StartHtml == << Anchor(<<UrlShort>>) >>

StartItems ==
  { MailItem(f, <<"U","r","g","e","n","t">>, StartText, StartHtml, b, api, typed, at) :
      f \in StartSenders, b \in {NoBlock, AuthBlock, FoldedAuthBlock},
      api \in BOOLEAN, typed \in BOOLEAN, at \in {<<>>, <<AttItem>>} }

\* the texts of the two results the handler makes itself (taskpane.js 571,
\* 648)
START_REASON ==
  [ NO_ITEM |-> "Unable to access email item",
    FAILED  |-> "Analysis failed: ${error.message}" ]

NoItemResult ==
  [ probability |-> 0,
    reasons     |-> << START_REASON.NO_ITEM >>,
    riskClass   |-> "risk-low",
    linkDomains |-> <<>>,
    fromDomain  |-> <<>> ]

FailedResult ==
  [ probability |-> 0,
    reasons     |-> << START_REASON.FAILED >>,
    riskClass   |-> "risk-low",
    linkDomains |-> <<>>,
    fromDomain  |-> <<>> ]

\* the header names analyze reads, as the keys parseHeaders makes of them
HeaderNameText ==
  [n \in {"authentication-results", "received-spf", "resent-from", "resent-sender"} |->
     CASE n = "authentication-results" -> <<"a","u","t","h","e","n","t","i","c","a","t","i","o","n","-","r","e","s","u","l","t","s">>
       [] n = "received-spf" -> <<"r","e","c","e","i","v","e","d","-","s","p","f">>
       [] n = "resent-from" -> <<"r","e","s","e","n","t","-","f","r","o","m">>
       [] OTHER -> <<"r","e","s","e","n","t","-","s","e","n","d","e","r">>]

\* the mapping of parseHeaders as the header object analyze reads
HeaderObject(m) ==
  [n \in {k \in DOMAIN HeaderNameText : HeaderNameText[k] \in DOMAIN m} |->
     m[HeaderNameText[n]]]

\* { displayName: item.from && item.from.displayName,
\*   emailAddress: item.from && item.from.emailAddress }  (taskpane.js 579-582)
fromOf(it) ==
  << [ displayName  |-> IF it.from = <<>> THEN <<>> ELSE it.from[1].displayName,
       emailAddress |-> IF it.from = <<>> THEN <<>> ELSE it.from[1].emailAddress ] >>

\* the argument object of taskpane.js 637-639
analyzeArgs(it, text, hdrs, html) ==
  [ from |-> fromOf(it), subject |-> it.subject, bodyText |-> text,
    headers |-> HeaderObject(hdrs), html |-> html, attachments |-> it.attachments ]

InitStart ==
  /\ HeadersIdle
  /\ params = NoMessage
  /\ pc = "idle"
  /\ result = NoResult
  /\ added = <<>>
  /\ ui = NoUI
  /\ authHeaders = Headers(<<>>, <<>>, <<>>, <<>>)
  /\ authPc = "idle"
  /\ authResults = NoAuth
  /\ item \in {<<>>} \cup {<<it>> : it \in StartItems}
  /\ domReady \in BOOLEAN
  /\ statusEl \in BOOLEAN
  /\ hpc = "start"
  /\ loader = FALSE
  /\ pending = {}
  /\ issued = <<>>
  /\ failed = {}
  /\ localBodyText = NoBodyText
  /\ localBodyHtml = <<>>
  /\ localHeaders = <<>>
  /\ analyzeCalls = 0

analysisVars == <<params, pc, result, added, authHeaders, authPc, authResults, headerVars>>

\* showLoader()  (taskpane.js 565): without #status it does nothing
ShowLoader ==
  /\ hpc = "start"
  /\ loader' = statusEl
  /\ hpc' = "item"
  /\ UNCHANGED <<analysisVars, ui, item, domReady, statusEl, pending, issued, failed,
                 localBodyText, localBodyHtml, localHeaders, analyzeCalls>>

\* if (!item) { hideLoader(); setUI({...}); return; }  (taskpane.js 567-577);
\* setUI throws when the page lacks its elements
ItemMissing ==
  /\ hpc = "item"
  /\ item = <<>>
  /\ loader' = FALSE
  /\ IF domReady
     THEN ui' = setUI(NoItemResult) /\ hpc' = "done"
     ELSE ui' = ui /\ hpc' = "catch"
  /\ UNCHANGED <<analysisVars, item, domReady, statusEl, pending, issued, failed,
                 localBodyText, localBodyHtml, localHeaders, analyzeCalls>>

\* faulty variant of GetBodyText: the text and the HTML accessor are called
\* together
GetBodyTextAndHtml ==
  /\ hpc = "item"
  /\ item # <<>>
  /\ issued' = issued \o <<"text", "html">>
  /\ pending' = pending \cup {"text", "html"}
  /\ hpc' = "awaitText"
  /\ UNCHANGED <<analysisVars, ui, item, domReady, statusEl, loader, failed,
                 localBodyText, localBodyHtml, localHeaders, analyzeCalls>>

\* item.body.getAsync('text', ...)  (taskpane.js 585-595)
GetBodyText ==
  /\ hpc = "item"
  /\ item # <<>>
  /\ issued' = Append(issued, "text")
  /\ pending' = pending \cup {"text"}
  /\ hpc' = "awaitText"
  /\ UNCHANGED <<analysisVars, ui, item, domReady, statusEl, loader, failed,
                 localBodyText, localBodyHtml, localHeaders, analyzeCalls>>

\* faulty variant of BodyTextCallback: a failed status ends the handler in its
\* outer catch block
BodyTextCallbackRejects ==
  /\ hpc = "awaitText"
  /\ "text" \in pending
  /\ \E ok \in BOOLEAN :
        /\ localBodyText' = IF ok THEN item[1].text ELSE localBodyText
        /\ failed' = IF ok THEN failed ELSE failed \cup {"text"}
        /\ hpc' = IF ok THEN "html" ELSE "catch"
  /\ pending' = pending \ {"text"}
  /\ UNCHANGED <<analysisVars, ui, item, domReady, statusEl, loader, issued,
                 localBodyHtml, localHeaders, analyzeCalls>>

\* the callback of the text accessor: resolve(result.value), or reject and
\* the catch of taskpane.js 596-598, which leaves bodyText ''
BodyTextCallback ==
  /\ hpc = "awaitText"
  /\ "text" \in pending
  /\ \E ok \in BOOLEAN :
        /\ localBodyText' = IF ok THEN item[1].text ELSE localBodyText
        /\ failed' = IF ok THEN failed ELSE failed \cup {"text"}
  /\ pending' = pending \ {"text"}
  /\ hpc' = "html"
  /\ UNCHANGED <<analysisVars, ui, item, domReady, statusEl, loader, issued,
                 localBodyHtml, localHeaders, analyzeCalls>>

\* item.body.getAsync('html', ...)  (taskpane.js 602-612)
GetBodyHtml ==
  /\ hpc = "html"
  /\ issued' = Append(issued, "html")
  /\ pending' = pending \cup {"html"}
  /\ hpc' = "awaitHtml"
  /\ UNCHANGED <<analysisVars, ui, item, domReady, statusEl, loader, failed,
                 localBodyText, localBodyHtml, localHeaders, analyzeCalls>>

\* the callback of the HTML accessor: resolve(result.value), or resolve('')
BodyHtmlCallback ==
  /\ hpc = "awaitHtml"
  /\ "html" \in pending
  /\ \E ok \in BOOLEAN :
        /\ localBodyHtml' = IF ok THEN item[1].html ELSE <<>>
        /\ failed' = IF ok THEN failed ELSE failed \cup {"html"}
  /\ pending' = pending \ {"html"}
  /\ hpc' = "headers"
  /\ UNCHANGED <<analysisVars, ui, item, domReady, statusEl, loader, issued,
                 localBodyText, localHeaders, analyzeCalls>>

\* item.getAllInternetHeadersAsync(...)  (taskpane.js 620-631)
GetHeaders ==
  /\ hpc = "headers"
  /\ item[1].hasHeadersApi
  /\ issued' = Append(issued, "headers")
  /\ pending' = pending \cup {"headers"}
  /\ hpc' = "awaitHeaders"
  /\ UNCHANGED <<analysisVars, ui, item, domReady, statusEl, loader, failed,
                 localBodyText, localBodyHtml, localHeaders, analyzeCalls>>

\* if (item.getAllInternetHeadersAsync) is false: headers stays {}
SkipHeaders ==
  /\ hpc = "headers"
  /\ ~item[1].hasHeadersApi
  /\ hpc' = "analyze"
  /\ UNCHANGED <<analysisVars, ui, item, domReady, statusEl, loader, pending, issued, failed,
                 localBodyText, localBodyHtml, localHeaders, analyzeCalls>>

\* the callback of the headers accessor: headers = parseHeaders(raw), or
\* reject and the catch of taskpane.js 632-634, which leaves headers {}
HeadersCallback ==
  /\ hpc = "awaitHeaders"
  /\ "headers" \in pending
  /\ \E ok \in BOOLEAN :
        /\ localHeaders' = IF ok THEN parseHeaders(RawOf(item[1].headerBlock))
                           ELSE localHeaders
        /\ failed' = IF ok THEN failed ELSE failed \cup {"headers"}
  /\ pending' = pending \ {"headers"}
  /\ hpc' = "analyze"
  /\ UNCHANGED <<analysisVars, ui, item, domReady, statusEl, loader, issued,
                 localBodyText, localBodyHtml, analyzeCalls>>

\* const result = analyze({...})  (taskpane.js 637-639)
RunAnalyze ==
  /\ hpc = "analyze"
  /\ analyzeCalls' = analyzeCalls + 1
  /\ params' = analyzeArgs(item[1], localBodyText, localHeaders, localBodyHtml)
  /\ IF item[1].wellTyped
     THEN \E run \in {analyzeRun(analyzeArgs(item[1], localBodyText,
                                             localHeaders, localBodyHtml))} :
             /\ result' = run.ret
             /\ added' = run.added
             /\ hpc' = "render"
     ELSE /\ UNCHANGED <<result, added>>
          /\ hpc' = "catch"
  /\ UNCHANGED <<pc, authHeaders, authPc, authResults, headerVars, ui, item,
                 domReady, statusEl, loader, pending, issued, failed,
                 localBodyText, localBodyHtml, localHeaders>>

\* setUI(result)  (taskpane.js 640)
RenderResult ==
  /\ hpc = "render"
  /\ IF domReady
     THEN ui' = setUI(result) /\ hpc' = "hide"
     ELSE ui' = ui /\ hpc' = "catch"
  /\ UNCHANGED <<analysisVars, item, domReady, statusEl, loader, pending, issued, failed,
                 localBodyText, localBodyHtml, localHeaders, analyzeCalls>>

\* hideLoader()  (taskpane.js 641)
HideLoader ==
  /\ hpc = "hide"
  /\ loader' = FALSE
  /\ hpc' = "done"
  /\ UNCHANGED <<analysisVars, ui, item, domReady, statusEl, pending, issued, failed,
                 localBodyText, localBodyHtml, localHeaders, analyzeCalls>>

\* faulty variant of CatchError: the catch block does not call hideLoader
CatchErrorKeepsLoader ==
  /\ hpc = "catch"
  /\ IF domReady
     THEN ui' = setUI(FailedResult) /\ hpc' = "done"
     ELSE ui' = ui /\ hpc' = "rejected"
  /\ UNCHANGED <<analysisVars, item, domReady, statusEl, loader, pending, issued,
                 failed, localBodyText, localBodyHtml, localHeaders, analyzeCalls>>

\* catch (error) { hideLoader(); ...; setUI({...}) }  (taskpane.js 643-653)
CatchError ==
  /\ hpc = "catch"
  /\ loader' = FALSE
  /\ IF domReady
     THEN ui' = setUI(FailedResult) /\ hpc' = "done"
     ELSE ui' = ui /\ hpc' = "rejected"
  /\ UNCHANGED <<analysisVars, item, domReady, statusEl, pending, issued, failed,
                 localBodyText, localBodyHtml, localHeaders, analyzeCalls>>

NextStart ==
  \/ ShowLoader
  \/ ItemMissing
  \/ GetBodyText
  \/ BodyTextCallback
  \/ GetBodyHtml
  \/ BodyHtmlCallback
  \/ GetHeaders
  \/ SkipHeaders
  \/ HeadersCallback
  \/ RunAnalyze
  \/ RenderResult
  \/ HideLoader
  \/ CatchError

SpecStart == InitStart /\ [][NextStart]_vars

\* the steps of the handler other than the call of analyze
HandlerSteps ==
  \/ ShowLoader
  \/ ItemMissing
  \/ GetBodyText
  \/ BodyTextCallback
  \/ GetBodyHtml
  \/ BodyHtmlCallback
  \/ GetHeaders
  \/ SkipHeaders
  \/ HeadersCallback
  \/ RenderResult
  \/ HideLoader
  \/ CatchError

\* the step RunAnalyze, told by what it does to analyzeCalls: it is the only
\* step that starts at "analyze", and it is enabled in every such state
AnalyzeStep == hpc = "analyze" /\ analyzeCalls' = analyzeCalls + 1

\* the handler runs on, and every accessor invokes its callback: no step of
\* NextStart stays enabled for ever without being taken
SpecStartFair ==
  SpecStart /\ WF_vars(HandlerSteps) /\ WF_analyzeCalls(AnalyzeStep)
(***************************************************************************)
(* Properties.                                                             *)
(***************************************************************************)
RECURSIVE SumSeq(_)
SumSeq(ws) == IF ws = <<>> THEN 0 ELSE Head(ws) + SumSeq(Tail(ws))

Analyzed == pc \in {"analyzed", "rendered"}

\* the call has no sender object, or no or an empty emailAddress
NoSenderAddress ==
  \/ params.from = <<>>
  \/ params.from[1].emailAddress = <<>>
  \/ params.from[1].emailAddress = << <<>> >>

\* C1: the returned probability is an integer in 0..100, and riskClass is
\* high exactly from 80, medium exactly from 40 to 79, low below 40.
C1_ProbabilityAndRiskClass ==
  Analyzed =>
    /\ result.probability \in 0..100
    /\ result.riskClass \in {"risk-high", "risk-med", "risk-low"}
    /\ result.riskClass = "risk-high" <=> result.probability >= 80
    /\ result.riskClass = "risk-med" <=>
         (result.probability >= 40 /\ result.probability < 80)
    /\ result.riskClass = "risk-low" <=> result.probability < 40

\* C1 witness: every weighted signal that can fire together has fired (all
\* but the embedded-message one), their weights sum to 139, and the call
\* returned 100.
C1_Witness ==
  /\ pc = "analyzed"
  /\ SumSeq(added) = 139
  /\ Len(result.reasons) = 11
  /\ result.probability = 100
  /\ result.riskClass = "risk-high"

\* C2: without a sender object or address the call returns probability 0,
\* low risk, the single missing-sender reason, no link domains and an empty
\* fromDomain, whatever else the message holds.
C2_MissingSenderShortCircuit ==
  (Analyzed /\ NoSenderAddress) =>
    /\ result.probability = 0
    /\ result.riskClass = "risk-low"
    /\ result.reasons = << "Unable to analyze: Missing sender information" >>
    /\ result.linkDomains = <<>>
    /\ result.fromDomain = <<>>

\* C2 witness: a call with a sender object whose address is empty, on a
\* message with failing authentication, links, keywords and an embedded item.
C2_Witness ==
  /\ pc = "analyzed"
  /\ params.from # <<>>
  /\ params.from[1].emailAddress = << <<>> >>
  /\ params.from[1].displayName # <<>>
  /\ HeaderValue(params.headers, "authentication-results") = AuthAllFail
  /\ params.bodyText.urls # <<>>
  /\ params.html # <<>>
  /\ params.subject # <<>>
  /\ hasEmbeddedMsgOf(params.attachments)
  /\ result.reasons = << "Unable to analyze: Missing sender information" >>


(***************************************************************************)
(* The sender-vs-link mismatch penalty.                                    *)
(***************************************************************************)
MismatchReasons == { REASON.MISMATCH_FORWARDED, REASON.DOMAIN_MISMATCH }

\* what the mismatch check added to score in a run of analyze
MismatchPenalty(reasons, amounts) ==
  LET At(i) == IF reasons[i] \in MismatchReasons THEN amounts[i] ELSE 0
  IN  SumSeq([i \in 1..Len(reasons) |-> At(i)])

Forwarded ==
  \/ isForwardOf(params.headers)
  \/ hasEmbeddedMsgOf(params.attachments)

\* the same message without what flags it forwarded
Unforwarded(p) ==
  LET NotItem(att) == attTypeOf(att) # "item"
  IN  [p EXCEPT
         !.headers = [n \in DOMAIN p.headers \ {"resent-from", "resent-sender"} |->
                        p.headers[n]],
         !.attachments = SelectSeq(p.attachments, NotItem)]

\* the sender has a domain and some recorded link domain is neither it nor
\* below it
HasMismatchedLink ==
  /\ ~NoSenderAddress
  /\ result.fromDomain # <<>>
  /\ \E i \in 1..Len(result.linkDomains) :
        /\ result.linkDomains[i] # getRegistrableDomain(result.fromDomain)
        /\ ~endsWith(result.linkDomains[i],
                     <<".">> \o getRegistrableDomain(result.fromDomain))

Quiet ==
  /\ ~NoSenderAddress
  /\ LET from       == params.from[1]
         auth       == parseAuthResults(params.headers)
         display    == trim(OrEmpty(from.displayName))
         address    == toLowerCase(trim(OrEmpty(from.emailAddress)))
         fromDomain == extractDomain(address)
         text       == toLowerCase(params.subject \o <<"\n">> \o params.bodyText.prose)
     IN  /\ auth.dmarc # <<"f","a","i","l">> /\ auth.spf # <<"f","a","i","l">> /\ auth.dkim # <<"f","a","i","l">>
         /\ ~(display # <<>> /\ includes(display, <<"@">>) /\ ~includes(display, address))
         /\ fromDomain # <<>> /\ includes(fromDomain, <<".">>)
         /\ Len(foundKeywords(text)) < 2
         /\ params.bodyText.urls = <<>>
         /\ params.html = <<>>
         /\ ~formTag(params.bodyText.prose)
         /\ \A i \in 1..Len(params.attachments) :
               /\ params.attachments[i].attachmentType # "item"
               /\ params.attachments[i].type # "item"

NoRedFlagsNote == [tag |-> "em", text |-> "No obvious red flags."]

\* C4 as stated: when no signal fires on a message with a valid sender, the
\* reasons returned by analyze hold exactly one entry.
C4_QuietReasonsHasOneNote ==
  (Analyzed /\ Quiet) => Len(result.reasons) = 1

\* C4 amended: when no signal fires on a message with a valid sender,
\* analyze returns an empty reasons list with probability 0 and low risk;
\* the note that no red flags were found is the one element setUI renders
\* for the empty list, and setUI renders it for no other result.
C4_QuietReasonsEmptyNoteRendered ==
  /\ (Analyzed /\ Quiet) =>
        /\ result.reasons = <<>>
        /\ added = <<>>
        /\ result.probability = 0
        /\ result.riskClass = "risk-low"
  /\ (pc = "rendered" /\ Quiet) => ui.reasons = << NoRedFlagsNote >>
  /\ (pc = "rendered" /\ result.reasons # <<>>) =>
        /\ Len(ui.reasons) = Len(result.reasons)
        /\ \A i \in 1..Len(ui.reasons) : ui.reasons[i] # NoRedFlagsNote

\* a quiet message with one keyword and a file attachment, rendered
C4_Witness ==
  /\ pc = "rendered"
  /\ Quiet
  /\ Len(foundKeywords(toLowerCase(params.subject \o <<"\n">> \o params.bodyText.prose))) = 1
  /\ params.attachments # <<>>
  /\ ui.reasons = << NoRedFlagsNote >>

(***************************************************************************)
(* The order of the reasons.                                               *)
(***************************************************************************)
\* the fixed evaluation order, each place the reason texts analyze has for
\* it; analyze has no text for the anchor-text mismatch or for a redirector
\* bonus
EvaluationOrder ==
  << {REASON.DMARC_FAIL}, {REASON.SPF_FAIL}, {REASON.DKIM_FAIL},
     {REASON.DISPLAY_NAME_SPOOF}, {REASON.MALFORMED_DOMAIN},
     {REASON.KEYWORD_MULTIPLE}, {REASON.LINKS_FOUND}, {REASON.SHORTENED_LINK},
     {REASON.DATA_URI}, {REASON.HTML_FORM}, {REASON.EMBEDDED_MSG},
     {},
     {REASON.MISMATCH_FORWARDED, REASON.DOMAIN_MISMATCH},
     {} >>

\* reasons is a subsequence of EvaluationOrder: every entry has a place in
\* it, and an earlier entry has an earlier place than a later one
InEvaluationOrder(reasons) ==
  LET Places == 1..Len(EvaluationOrder)
  IN  /\ \A i \in 1..Len(reasons) :
            \E k \in Places : reasons[i] \in EvaluationOrder[k]
      /\ \A i \in 1..Len(reasons) : \A j \in 1..Len(reasons) :
            i < j => \E k \in Places : \E l \in Places :
                        /\ k < l
                        /\ reasons[i] \in EvaluationOrder[k]
                        /\ reasons[j] \in EvaluationOrder[l]

\* C5 as stated: for every input the reasons returned by analyze are a
\* subsequence of the fixed evaluation order, no reason repeated.
C5_ReasonsInOrderEveryInput ==
  Analyzed => InEvaluationOrder(result.reasons)

\* C5 amended: for every input with a sender address the reasons returned
\* by analyze are a subsequence of the fixed evaluation order, no reason
\* repeated; without a sender address the list is the single
\* missing-sender reason, which has no place in that order.
C5_ReasonsInOrderWithSender ==
  /\ (Analyzed /\ ~NoSenderAddress) => InEvaluationOrder(result.reasons)
  /\ (Analyzed /\ NoSenderAddress) =>
        /\ result.reasons = << REASON.MISSING_SENDER >>
        /\ ~InEvaluationOrder(result.reasons)

\* every signal of the order that analyze has fires at once
C5_Witness ==
  /\ pc = "analyzed"
  /\ ~NoSenderAddress
  /\ Len(result.reasons) = 12
  /\ result.reasons[7] = REASON.LINKS_FOUND
  /\ result.reasons[10] = REASON.HTML_FORM
  /\ result.reasons[11] = REASON.EMBEDDED_MSG
  /\ result.reasons[12] = REASON.MISMATCH_FORWARDED

(***************************************************************************)
(* Redirector links and the score.                                         *)
(***************************************************************************)
\* the score before clamping
Score(amounts) == SumSeq(amounts)

IsRedirectorLink(u) ==
  UrlParses(u) /\ toLowerCase(u.host) \in CONFIG.REDIRECTOR_HOSTS

RemoveAt(s, i) == SubSeq(s, 1, i - 1) \o SubSeq(s, i + 1, Len(s))

\* the same message with one link fewer in the text, or one anchor fewer
WithoutTextLink(p, i) ==
  [p EXCEPT !.bodyText = [prose |-> p.bodyText.prose,
                          urls  |-> RemoveAt(p.bodyText.urls, i)]]

WithoutAnchor(p, i) == [p EXCEPT !.html = RemoveAt(p.html, i)]

RedirectorTextLinks ==
  {i \in 1..Len(params.bodyText.urls) : IsRedirectorLink(params.bodyText.urls[i])}

RedirectorAnchors ==
  {i \in 1..Len(params.html) :
     params.html[i].href # <<>> /\ IsRedirectorLink(params.html[i].href[1])}

\* the weight CONFIG has for each reason analyze reports
ReasonWeight ==
  [r \in { REASON.DMARC_FAIL, REASON.SPF_FAIL, REASON.DKIM_FAIL,
           REASON.DISPLAY_NAME_SPOOF, REASON.MALFORMED_DOMAIN,
           REASON.KEYWORD_MULTIPLE, REASON.LINKS_FOUND, REASON.SHORTENED_LINK,
           REASON.DATA_URI, REASON.HTML_FORM, REASON.EMBEDDED_MSG,
           REASON.MISMATCH_FORWARDED, REASON.DOMAIN_MISMATCH } |->
     CASE r = REASON.DMARC_FAIL         -> CONFIG.WEIGHTS.DMARC_FAIL
       [] r = REASON.SPF_FAIL           -> CONFIG.WEIGHTS.SPF_FAIL
       [] r = REASON.DKIM_FAIL          -> CONFIG.WEIGHTS.DKIM_FAIL
       [] r = REASON.DISPLAY_NAME_SPOOF -> CONFIG.WEIGHTS.DISPLAY_NAME_SPOOF
       [] r = REASON.MALFORMED_DOMAIN   -> CONFIG.WEIGHTS.MALFORMED_DOMAIN
       [] r = REASON.KEYWORD_MULTIPLE   -> CONFIG.WEIGHTS.KEYWORD_MULTIPLE
       [] r = REASON.SHORTENED_LINK     -> CONFIG.WEIGHTS.SHORTENED_LINK
       [] r = REASON.DATA_URI           -> CONFIG.WEIGHTS.DATA_URI
       [] r = REASON.HTML_FORM          -> CONFIG.WEIGHTS.HTML_FORM
       [] r = REASON.EMBEDDED_MSG       -> CONFIG.WEIGHTS.EMBEDDED_MSG
       [] r = REASON.DOMAIN_MISMATCH    -> CONFIG.WEIGHTS.DOMAIN_MISMATCH
       [] OTHER                         -> 0]

\* C6 as stated: the score includes a bonus for every link on a known
\* redirector host, so that before clamping a message scores strictly
\* higher than the same message with one redirector link fewer.
C6_RedirectorBonus ==
  (Analyzed /\ ~NoSenderAddress) =>
     /\ \A i \in RedirectorTextLinks :
           Score(added) > Score(analyzeRun(WithoutTextLink(params, i)).added)
     /\ \A i \in RedirectorAnchors :
           Score(added) > Score(analyzeRun(WithoutAnchor(params, i)).added)

\* C6 amended: the score includes no redirector bonus.  What analyze adds
\* for each reported reason is the one weight CONFIG has for that reason
\* (nothing for link presence and for the forwarded mismatch), no reason is
\* reported for redirector links, the probability is the smaller of the sum
\* and 100, and a message scores the same as the same message with one
\* redirector link fewer whenever the two report the same kinds of reasons.
C6_NoRedirectorBonus ==
  (Analyzed /\ ~NoSenderAddress) =>
     /\ \A i \in 1..Len(result.reasons) :
           /\ result.reasons[i] \in DOMAIN ReasonWeight
           /\ added[i] = ReasonWeight[result.reasons[i]]
     /\ result.probability = MinOf({Score(added), 100})
     /\ \A i \in RedirectorTextLinks :
           LET fewer == analyzeRun(WithoutTextLink(params, i))
           IN  fewer.ret.reasons = result.reasons => Score(fewer.added) = Score(added)
     /\ \A i \in RedirectorAnchors :
           LET fewer == analyzeRun(WithoutAnchor(params, i))
           IN  fewer.ret.reasons = result.reasons => Score(fewer.added) = Score(added)

\* two redirector links in the text, one with a target that decodes and one
\* without, and the message scores what it scores with either of them alone
C6_Witness ==
  /\ pc = "analyzed"
  /\ ~NoSenderAddress
  /\ Len(params.bodyText.urls) = 2
  /\ RedirectorTextLinks = {1, 2}
  /\ params.bodyText.urls[1] # params.bodyText.urls[2]
  /\ \E i \in RedirectorTextLinks : FirstTarget(params.bodyText.urls[i]) = <<>>
  /\ Score(added) > 0
  /\ Score(added) = Score(analyzeRun(WithoutTextLink(params, 1)).added)
  /\ Score(added) = Score(analyzeRun(WithoutTextLink(params, 2)).added)

(***************************************************************************)
(* Decoding of wrapped links.                                              *)
(***************************************************************************)
\* the links of the message as they stand in the body text and in the href
\* attributes, before any decoding
RawLinks(p) ==
  {p.bodyText.urls[i] : i \in 1..Len(p.bodyText.urls)}
  \cup {p.html[i].href[1] : i \in {k \in 1..Len(p.html) : p.html[k].href # <<>>}}

\* the target embedded in the outermost wrapper only, the link itself when
\* it is no wrapper or no candidate parameter parses
OutermostTarget(u) ==
  IF IsRedirectorLink(u) /\ FirstTarget(u) # <<>> THEN FirstTarget(u)[1] ELSE u

DomainOfLink(u) ==
  IF UrlParses(u) THEN getRegistrableDomain(toLowerCase(u.host)) ELSE <<>>

\* C7: every link, from the text scan or the anchor scan, is decoded at
\* most once, so the domains in linkDomains are those of the targets
\* embedded in the outermost wrappers (a wrapper around a redirector link is
\* recorded under the inner redirector's domain), and of the links
\* themselves where nothing decodes.
C7_DecodedOnceOutermostOnly ==
  (Analyzed /\ ~NoSenderAddress) =>
     {result.linkDomains[i] : i \in 1..Len(result.linkDomains)}
       = {DomainOfLink(OutermostTarget(u)) : u \in RawLinks(params)} \ {<<>>}

(***************************************************************************)
(* linkDomains.                                                            *)
(***************************************************************************)
\* C8: linkDomains has no duplicate entries and no empty strings, also when
\* several links resolve to the same registrable domain and when some links
\* do not parse as URLs.
C8_LinkDomainsDistinctNonEmpty ==
  Analyzed =>
     /\ \A i \in 1..Len(result.linkDomains) : result.linkDomains[i] # <<>>
     /\ \A i \in 1..Len(result.linkDomains) : \A j \in 1..Len(result.linkDomains) :
           i # j => result.linkDomains[i] # result.linkDomains[j]

\* three different links, two that resolve to the same registrable domain
\* and one that does not parse, recorded as one domain
C8_Witness ==
  /\ pc = "analyzed"
  /\ Len(urlsOf(params)) = 3
  /\ \E i \in 1..3 : ~UrlParses(urlsOf(params)[i])
  /\ \E i \in 1..3 : \E j \in 1..3 :
        /\ i # j
        /\ UrlParses(decodeRedirectTarget(urlsOf(params)[i]))
        /\ UrlParses(decodeRedirectTarget(urlsOf(params)[j]))
        /\ decodeRedirectTarget(urlsOf(params)[i]).host
             # decodeRedirectTarget(urlsOf(params)[j]).host
        /\ DomainOfLink(decodeRedirectTarget(urlsOf(params)[i]))
             = DomainOfLink(decodeRedirectTarget(urlsOf(params)[j]))
  /\ Len(result.linkDomains) = 1

(***************************************************************************)
(* parseAuthResults.                                                       *)
(***************************************************************************)
Parsed == authPc = "parsed"

FiveResults == { <<"p","a","s","s">>, <<"f","a","i","l">>, <<"s","o","f","t","f","a","i","l">>, <<"n","e","u","t","r","a","l">>, <<"n","o","n","e">> }

AuthRes == toLowerCase(HeaderValue(authHeaders, "authentication-results"))

ReceivedSpf == toLowerCase(HeaderValue(authHeaders, "received-spf"))

\* the letters after key when the header begins with key, <<>> otherwise
LeadingValue(key) ==
  IF startsWith(AuthRes, key)
  THEN SubSeq(AuthRes, Len(key) + 1, RunEnd(AuthRes, Len(key) + 1, LowerLetters))
  ELSE <<>>

\* the received-spf header holds none of the five words
NoSpfWord == \A w \in FiveResults : ~includes(ReceivedSpf, w)

\* C9 as stated: each of dmarc, spf and dkim is one of pass, fail, softfail,
\* neutral, none, and is none when the token is absent or has another
\* value.
C9_FieldsAmongFive ==
  Parsed =>
     /\ authResults.dmarc \in FiveResults
     /\ authResults.spf \in FiveResults
     /\ authResults.dkim \in FiveResults
     /\ ~includes(AuthRes, <<"d","m","a","r","c","=">>) => authResults.dmarc = <<"n","o","n","e">>
     /\ ~includes(AuthRes, <<"d","k","i","m","=">>) => authResults.dkim = <<"n","o","n","e">>
     /\ (NoSpfWord /\ ~includes(AuthRes, <<"s","p","f","=">>)) => authResults.spf = <<"n","o","n","e">>
     /\ LeadingValue(<<"d","m","a","r","c","=">>) \notin FiveResults \cup {<<>>} =>
           authResults.dmarc = <<"n","o","n","e">>
     /\ LeadingValue(<<"d","k","i","m","=">>) \notin FiveResults \cup {<<>>} =>
           authResults.dkim = <<"n","o","n","e">>

\* C9 amended: each of dmarc, spf and dkim is a non-empty run of lower-case
\* letters: none when the header has no token for it, otherwise the value
\* of the token whatever it is, also when it is not one of the five
\* (dmarc=temperror gives temperror); spf is one of the five when it is
\* taken from the received-spf header.
C9_FieldsAreTokenValues ==
  Parsed =>
     /\ \A f \in {"dmarc", "spf", "dkim"} :
           /\ authResults[f] # <<>>
           /\ \A i \in 1..Len(authResults[f]) : authResults[f][i] \in LowerLetters
     /\ ~includes(AuthRes, <<"d","m","a","r","c","=">>) => authResults.dmarc = <<"n","o","n","e">>
     /\ ~includes(AuthRes, <<"d","k","i","m","=">>) => authResults.dkim = <<"n","o","n","e">>
     /\ (NoSpfWord /\ ~includes(AuthRes, <<"s","p","f","=">>)) => authResults.spf = <<"n","o","n","e">>
     /\ authResults.dmarc \notin FiveResults =>
           includes(AuthRes, <<"d","m","a","r","c","=">> \o authResults.dmarc)
     /\ authResults.dkim \notin FiveResults =>
           includes(AuthRes, <<"d","k","i","m","=">> \o authResults.dkim)
     /\ authResults.spf \notin FiveResults =>
           includes(AuthRes, <<"s","p","f","=">> \o authResults.spf)
     /\ LeadingValue(<<"d","m","a","r","c","=">>) # <<>> => authResults.dmarc = LeadingValue(<<"d","m","a","r","c","=">>)
     /\ LeadingValue(<<"d","k","i","m","=">>) # <<>> => authResults.dkim = LeadingValue(<<"d","k","i","m","=">>)
     /\ (NoSpfWord /\ LeadingValue(<<"s","p","f","=">>) # <<>>) =>
           authResults.spf = LeadingValue(<<"s","p","f","=">>)

\* dmarc=temperror and dkim=permerror parsed
C9_Witness ==
  /\ Parsed
  /\ includes(AuthRes, <<"d","m","a","r","c","=","t","e","m","p","e","r","r","o","r">>)
  /\ includes(AuthRes, <<"d","k","i","m","=","p","e","r","m","e","r","r","o","r">>)
  /\ authResults.dmarc = <<"t","e","m","p","e","r","r","o","r">>
  /\ authResults.dkim = <<"p","e","r","m","e","r","r","o","r">>

(***************************************************************************)
(* DMARC failure.                                                          *)
(***************************************************************************)
\* the authentication-results header reports dmarc=fail: its first dmarc
\* result is the word fail
DmarcFailReported ==
  LET h == toLowerCase(HeaderValue(params.headers, "authentication-results"))
      Result(i) == /\ OccursAt(h, i, <<"d","m","a","r","c","=">>)
                   /\ WordBoundary(h, i)
                   /\ i + 6 <= Len(h)
                   /\ h[i + 6] \in LowerLetters
  IN  \E i \in 1..Len(h) :
         /\ Result(i)
         /\ \A j \in 1..(i - 1) : ~Result(j)
         /\ OccursAt(h, i, <<"d","m","a","r","c","=","f","a","i","l">>)
         /\ (i + 10 > Len(h) \/ h[i + 10] \notin LowerLetters)

OtherWeights ==
  { CONFIG.WEIGHTS.SPF_FAIL, CONFIG.WEIGHTS.DKIM_FAIL,
    CONFIG.WEIGHTS.DISPLAY_NAME_SPOOF, CONFIG.WEIGHTS.MALFORMED_DOMAIN,
    CONFIG.WEIGHTS.KEYWORD_MULTIPLE, CONFIG.WEIGHTS.SHORTENED_LINK,
    CONFIG.WEIGHTS.DATA_URI, CONFIG.WEIGHTS.HTML_FORM,
    CONFIG.WEIGHTS.DOMAIN_MISMATCH, CONFIG.WEIGHTS.EMBEDDED_MSG }

RECURSIVE UnfoldedHeaders(_, _)
UnfoldedHeaders(acc, entries) ==
  IF entries = <<>> THEN acc
  ELSE LET e == Head(entries)
       IN  UnfoldedHeaders(
             IF e.name = <<>> THEN acc
             ELSE setHeader(acc, toLowerCase(trim(e.name)), trim(join(e.parts, <<" ">>))),
             Tail(entries))

HasContinuation(b) == \E i \in 1..Len(b.entries) : Len(b.entries[i].parts) > 1

\* C12: parseHeaders maps each lower-cased header name to its trimmed
\* value, every folded continuation line joined to the text before it by
\* one space with no line break left in the value; an empty or entirely
\* malformed block gives the empty mapping.
C12_HeadersUnfolded ==
  headersPc = "parsed" =>
     /\ parsedHeaders = UnfoldedHeaders(<<>>, headerBlock.entries)
     /\ \A n \in DOMAIN parsedHeaders :
           \A i \in 1..Len(parsedHeaders[n]) :
              parsedHeaders[n][i] \notin LineTerminators

(***************************************************************************)
(* A sender address no domain can be extracted from.                       *)
(***************************************************************************)
\* the call has a non-empty sender address, and extractDomain finds no
\* user@domain in it
UnparsableSender ==
  /\ ~NoSenderAddress
  /\ extractDomain(toLowerCase(trim(params.from[1].emailAddress[1]))) = <<>>

\* the same message sent from another address
WithAddress(p, a) ==
  [p EXCEPT !.from = << [displayName  |-> p.from[1].displayName,
                         emailAddress |-> <<a>>] >>]

\* the reasons that do not depend on the sender's address
AddressFree(reasons) ==
  LET Free(r) == r \notin {REASON.DISPLAY_NAME_SPOOF, REASON.MALFORMED_DOMAIN}
                            \cup MismatchReasons
  IN  SelectSeq(reasons, Free)

\* C13 as stated: for a non-empty sender address from which no user@domain
\* can be extracted, analyze returns what it returns for a missing address:
\* probability 0, low risk, the single missing-sender reason, and nothing is
\* added to score by any other signal.
C13_UnparsableSenderShortCircuits ==
  (Analyzed /\ UnparsableSender) =>
    /\ result = MissingSenderResult
    /\ added = <<0>>

\* C13: for a non-empty sender address from which no user@domain can be
\* extracted, analyze does not short-circuit: it reports an empty fromDomain
\* and the malformed-domain reason exactly once with its weight, reports no
\* missing-sender and no sender-vs-link mismatch reason, and evaluates the
\* authentication, keyword, link and attachment signals as it does for the
\* same message sent from a well-formed address; the probability is the sum
\* of the weights added, clamped to 100.
C13_UnparsableSenderEvaluated ==
  (Analyzed /\ UnparsableSender) =>
    /\ result.fromDomain = <<>>
    /\ Cardinality({i \in 1..Len(result.reasons) :
                      /\ result.reasons[i] = REASON.MALFORMED_DOMAIN
                      /\ added[i] = CONFIG.WEIGHTS.MALFORMED_DOMAIN}) = 1
    /\ \A i \in 1..Len(result.reasons) :
          result.reasons[i] \notin {REASON.MISSING_SENDER} \cup MismatchReasons
    /\ AddressFree(result.reasons) =
         AddressFree(analyzeRun(WithAddress(params, <<"u","s","e","r","@","b","a","n","k",".","c","o","m">>)).ret.reasons)
    /\ result.linkDomains =
         analyzeRun(WithAddress(params, <<"u","s","e","r","@","b","a","n","k",".","c","o","m">>)).ret.linkDomains
    /\ result.probability = MinOf({100, SumSeq(added)})

\* C13 witness: a call whose sender address is the word "bank", on a message
\* with failing authentication and links: the malformed-domain reason stands
\* beside the DMARC reason and the probability is not 0.
C13_Witness ==
  /\ pc = "analyzed"
  /\ params.from # <<>>
  /\ params.from[1].emailAddress = << <<"b","a","n","k">> >>
  /\ HeaderValue(params.headers, "authentication-results") = AuthAllFail
  /\ Len(result.linkDomains) > 0
  /\ \E i \in 1..Len(result.reasons) : result.reasons[i] = REASON.MALFORMED_DOMAIN
  /\ \E i \in 1..Len(result.reasons) : result.reasons[i] = REASON.DMARC_FAIL
  /\ result.probability > 0

(***************************************************************************)
(* The sender-vs-link mismatch of a message that is not forwarded.         *)
(***************************************************************************)
\* the sender's domain is not empty and holds a dot
WellFormedSender ==
  /\ ~NoSenderAddress
  /\ result.fromDomain # <<>>
  /\ includes(result.fromDomain, <<".">>)

\* the places of the reasons where the plain mismatch reason stands
MismatchPlaces ==
  {i \in 1..Len(result.reasons) : result.reasons[i] = REASON.DOMAIN_MISMATCH}

\* C14: for a message not flagged forwarded whose sender domain is
\* well-formed, the mismatch reason is reported exactly once and
\* CONFIG.WEIGHTS.DOMAIN_MISMATCH is added exactly once when some entry of
\* linkDomains is neither the sender's registrable domain nor ends with "."
\* and that domain, however many such entries there are; when there is no
\* such entry the reason is not reported and nothing is added.
C14_MismatchOnceIffForeignLink ==
  (Analyzed /\ WellFormedSender /\ ~Forwarded) =>
    /\ \A i \in 1..Len(result.reasons) : result.reasons[i] # REASON.MISMATCH_FORWARDED
    /\ HasMismatchedLink =>
         /\ Cardinality(MismatchPlaces) = 1
         /\ MismatchPenalty(result.reasons, added) = CONFIG.WEIGHTS.DOMAIN_MISMATCH
    /\ ~HasMismatchedLink =>
         /\ MismatchPlaces = {}
         /\ MismatchPenalty(result.reasons, added) = 0

\* C14 witness: sender domain mail.bank.com, not forwarded, two link domains
\* that are both foreign to bank.com: one mismatch reason, one weight.
C14_Witness ==
  /\ pc = "analyzed"
  /\ WellFormedSender
  /\ ~Forwarded
  /\ result.fromDomain = <<"m","a","i","l",".","b","a","n","k",".","c","o","m">>
  /\ Len(result.linkDomains) = 2
  /\ \A i \in 1..2 :
        /\ result.linkDomains[i] # <<"b","a","n","k",".","c","o","m">>
        /\ ~endsWith(result.linkDomains[i], <<".","b","a","n","k",".","c","o","m">>)
  /\ Cardinality(MismatchPlaces) = 1
  /\ MismatchPenalty(result.reasons, added) = CONFIG.WEIGHTS.DOMAIN_MISMATCH

(***************************************************************************)
(* The start-up handler when the mail item or an accessor fails.           *)
(***************************************************************************)
\* the mail item is unavailable, or an accessor reported a failed status
ProviderFailed == item = <<>> \/ failed # {}

\* what the page shows for the two results the handler makes itself
CouldNotRunUIs == { setUI(NoItemResult), setUI(FailedResult) }

\* what the handler gives analyze when the accessors named in f report
\* failure: the empty value for each of them, what the item holds for the rest
ArgsWithFailed(it, f) ==
  analyzeArgs(it,
              IF "text" \in f THEN NoBodyText ELSE it.text,
              IF "headers" \in f \/ ~it.hasHeadersApi
              THEN <<>> ELSE parseHeaders(RawOf(it.headerBlock)),
              IF "html" \in f THEN <<>> ELSE it.html)

\* C11 as stated: when the handler has ended on a page that can show a
\* result and the mail item was unavailable or the text, HTML or headers
\* accessor reported failure, the page shows one of the handler's own
\* could-not-run results and not a scored result of analyze.
C11_FailureShownAsCouldNotRun ==
  (hpc = "done" /\ domReady /\ ProviderFailed) => ui \in CouldNotRunUIs

\* C11: when the handler has ended on a page that can show a result: without
\* a mail item analyze is never called and the page shows 0% risk, low risk
\* and the single reason 'Unable to access email item'; with a mail item,
\* each accessor that reported failure contributes the empty value (empty
\* text, empty HTML, empty header mapping) and the page shows the scored
\* result of analyze on what remains, or the 'Analysis failed' result when
\* analyze threw.
C11_FailureFallsBack ==
  (hpc = "done" /\ domReady) =>
    /\ item = <<>> => (ui = setUI(NoItemResult) /\ analyzeCalls = 0)
    /\ item # <<>> =>
         /\ analyzeCalls = 1
         /\ params = ArgsWithFailed(item[1], failed)
         /\ item[1].wellTyped => ui = setUI(analyze(ArgsWithFailed(item[1], failed)))
         /\ ~item[1].wellTyped => ui = setUI(FailedResult)

\* C11 witness: the text accessor reported failure, and the page shows a
\* result of analyze with a score above 0 made from the HTML body alone.
C11_Witness ==
  /\ hpc = "done"
  /\ domReady
  /\ failed = {"text"}
  /\ params.bodyText = NoBodyText
  /\ ui = setUI(result)
  /\ ui \notin CouldNotRunUIs
  /\ result.probability > 0
  /\ Len(result.linkDomains) > 0

(***************************************************************************)
(* The order of the acquisitions and the call of analyze.                  *)
(***************************************************************************)
\* the accessors the handler calls for an item, in the order of the code
Acquisitions(it) ==
  IF it.hasHeadersApi THEN <<"text", "html", "headers">> ELSE <<"text", "html">>

IsPrefix(s, t) == Len(s) <= Len(t) /\ s = SubSeq(t, 1, Len(s))

\* every accessor the handler calls for the item has been called and its
\* callback has run
AcquisitionsComplete ==
  /\ item # <<>>
  /\ issued = Acquisitions(item[1])
  /\ pending = {}

\* C15: analyze is called at most once, and the step that calls it starts
\* from a state where the text, the HTML and (when the API exists) the
\* headers accessor have all been called and each callback has run, so none
\* is outstanding; the accessors are called one at a time, each only when no
\* callback is outstanding, in the order text, HTML, headers.
C15_AnalyzeAfterAcquisitions ==
  /\ [](/\ analyzeCalls <= 1
        /\ Cardinality(pending) <= 1
        /\ IsPrefix(issued, <<"text", "html", "headers">>)
        /\ analyzeCalls = 1 => AcquisitionsComplete)
  /\ [][analyzeCalls' # analyzeCalls => AcquisitionsComplete]_vars
  /\ [][issued' # issued =>
          /\ pending = {}
          /\ \E a \in {"text", "html", "headers"} :
                /\ issued' = Append(issued, a)
                /\ pending' = {a}]_vars

\* C15 witness: the handler has ended after one call of analyze, which
\* followed the three accessor calls in order, the last callback reporting
\* failure.
C15_Witness ==
  /\ hpc = "done"
  /\ analyzeCalls = 1
  /\ issued = <<"text", "html", "headers">>
  /\ pending = {}
  /\ "headers" \in failed
  /\ ui = setUI(result)

(***************************************************************************)
(* The end of the start-up handler.                                        *)
(***************************************************************************)
\* the handler has returned, or its promise is rejected
HandlerEnded == hpc \in {"done", "rejected"}

\* something has been rendered to #summary and #reasons
Rendered == ui # NoUI

\* the headers accessor does not exist or reported failure
NoHeadersAcquired ==
  /\ item # <<>>
  /\ ~item[1].hasHeadersApi \/ "headers" \in failed

\* analyze ran with an empty header mapping and reported no reason that
\* comes from a header: no DMARC, SPF or DKIM reason, and the forwarded
\* reason only for an embedded message attachment
NoHeaderBasedReason ==
  /\ DOMAIN params.headers = {}
  /\ \A i \in 1..Len(result.reasons) :
        /\ result.reasons[i] \notin {REASON.DMARC_FAIL, REASON.SPF_FAIL, REASON.DKIM_FAIL}
        /\ result.reasons[i] = REASON.MISMATCH_FORWARDED =>
             hasEmbeddedMsgOf(params.attachments)

\* analyze has returned a result in this run of the handler
AnalysisCompleted == analyzeCalls = 1 /\ hpc \in {"render", "hide", "done"}

\* C16 as stated: on every path, when the handler has ended the loader is
\* removed and a result has been rendered to the page; and when the headers
\* API is absent or its accessor failed, analyze has run with an empty
\* header mapping and reports no header-based reason.
C16_EndsRenderedEveryPath ==
  HandlerEnded =>
    /\ ~loader
    /\ Rendered
    /\ (NoHeadersAcquired /\ item[1].wellTyped) =>
         (analyzeCalls = 1 /\ NoHeaderBasedReason)

\* C16: on every path, provided every accessor invokes its callback, the
\* handler ends with the loader removed, and the loader is never shown again
\* after the first step; it ends with a result rendered exactly when the
\* page has its #summary and #reasons elements, and otherwise ends rejected
\* with nothing rendered; and whenever analyze has returned while the
\* headers API is absent or its accessor failed, it ran with an empty header
\* mapping and reports no header-based reason.
C16_EndsLoaderRemovedRenderedOnPage ==
  /\ <>[](HandlerEnded /\ ~loader)
  /\ [][(~loader /\ loader') => hpc = "start"]_vars
  /\ [](HandlerEnded =>
          /\ ~loader
          /\ domReady => (hpc = "done" /\ Rendered)
          /\ ~domReady => (hpc = "rejected" /\ ~Rendered))
  /\ []((NoHeadersAcquired /\ AnalysisCompleted) => NoHeaderBasedReason)
  /\ []((HandlerEnded /\ domReady /\ NoHeadersAcquired /\ item[1].wellTyped) =>
          (analyzeCalls = 1 /\ ui = setUI(result) /\ NoHeaderBasedReason))

\* C16 witness: a client without the headers API and an item whose header
\* block would report a DMARC failure: the handler has ended with the loader,
\* once shown, removed and the result of analyze on an empty header mapping
\* rendered.
C16_Witness ==
  /\ hpc = "done"
  /\ statusEl
  /\ ~loader
  /\ item # <<>>
  /\ ~item[1].hasHeadersApi
  /\ item[1].headerBlock = AuthBlock
  /\ issued = <<"text", "html">>
  /\ analyzeCalls = 1
  /\ ui = setUI(result)
  /\ NoHeaderBasedReason
  /\ result.probability > 0
====
